---- MODULE Spec2Model ----
(***************************************************************************)
(* Chain processing core of the node (src/node/processor.cpp):             *)
(* NodeProcessor's block interpreter, cursor, reorg engine TryGoUp,        *)
(* ingress OnState / OnBlock, pruning and macroblock import.               *)
(*                                                                         *)
(* The store (NodeDB) is not part of src/: its operations are modelled     *)
(* from the store contract and the data model of the specification.        *)
(***************************************************************************)
EXTENDS Integers, Sequences, FiniteSets, TLC

(***************************************************************************)
(* Bounds of the model and program constants                               *)
(***************************************************************************)

\* Length of the main chain of the header universe.
MaxHeight == 3
\* Width of the UTXO multiplicity (Input::Count is a 32-bit unsigned; numbers
\* of the model checker are 32-bit signed, so the width is scaled down).
CountBits == 2
\* Stand-in for the order of the scalar group the offsets are added in.
ScalarOrder == 5

\* The clock values of getTimestamp()
NumClocks == 2

\* Rules::HeightGenesis
HeightGenesis == 1
\* Rules::get().TimestampAheadThreshold_s
TimestampAheadThreshold_s == 20
\* Rules::get().MaxRollbackHeight
MaxRollbackHeight == 0
\* Rules::get().WindowForMedian
WindowForMedian == 3
\* Rules::get().DifficultyReviewCycle
DifficultyReviewCycle == 1440
\* Rules::get().CoinbaseEmission
CoinbaseEmission == 1
\* Rules::get().MaturityCoinbase, Rules::get().MaturityStd
MaturityCoinbase == 2
MaturityStd == 0

\* Height is a 64-bit unsigned. Every height of the model is below 16, so a
\* wrapped difference only ever is compared with such a number: the modulus
\* 2^64 is represented by 2^30.
HeightWrap == 2^30
\* Height(-1)
HeightMax == HeightWrap - 1
HeightSub(a, b) == (a - b + HeightWrap) % HeightWrap
HeightAdd(a, b) == (a + b) % HeightWrap

CountWrap == 2^CountBits
\* AmountBig (128 bits), same representation as the heights
AmountWrap == 2^30

\* const Height* pHMax = NULL
NoHMax == -1
\* Merkle::Hash hv(Zero): the key of the subsidy sentinel in the kernel set
ZeroHash == 0

Min(S) == CHOOSE x \in S : \A y \in S : x <= y
Max(S) == CHOOSE x \in S : \A y \in S : x >= y

(***************************************************************************)
(* Accumulators: the UTXO multiset m_Utxos (a map from (commitment,        *)
(* maturity) to a count), the kernel set m_Kernels and m_Extra.            *)
(* acc = [utxos, kernels, open, subsidy, offset, ub]; ub records that a    *)
(* leaf was read whose count was never written.                            *)
(***************************************************************************)

EmptyUtxos == [k \in {} |-> 0]

\* ZeroObject(m_Extra); m_Extra.m_SubsidyOpen = true, and empty trees
EmptyAcc ==
    [utxos |-> EmptyUtxos, kernels |-> {}, open |-> TRUE, subsidy |-> 0,
     offset |-> 0, ub |-> FALSE]

UtxoCount(utxos, key) == IF key \in DOMAIN utxos THEN utxos[key] ELSE 0

UtxoSet(utxos, key, n) ==
    [k \in (DOMAIN utxos) \cup {key} |-> IF k = key THEN n ELSE utxos[k]]

UtxoDelete(utxos, key) == [k \in (DOMAIN utxos) \ {key} |-> utxos[k]]

\* A faulty traversal: it stops at the last leaf of the range
UtxoFirstLeaf_Last(utxos, c, lo, hi) ==
    LET S == {k \in DOMAIN utxos : k[1] = c /\ k[2] >= lo /\ k[2] <= hi}
    IN  IF S = {} THEN -1 ELSE Max({k[2] : k \in S})

\* m_Utxos.Traverse over [(c, lo), (c, hi)] with a traveler that stops at the
\* first leaf: the maturity of that leaf, or -1 when the range holds no leaf.
UtxoFirstLeaf(utxos, c, lo, hi) ==
    LET S == {k \in DOMAIN utxos : k[1] = c /\ k[2] >= lo /\ k[2] <= hi}
    IN  IF S = {} THEN -1 ELSE Min({k[2] : k \in S})

\* Output::get_MinMaturity(h)
MinMaturity(v, h) ==
    HeightAdd(h, IF v.coinbase THEN MaturityCoinbase ELSE MaturityStd)

\* The count of a leaf that exists goes down by one; the leaf is deleted when
\* the count gets to zero
UtxoDecrement(utxos, key) ==
    IF (utxos[key] - 1 + CountWrap) % CountWrap = 0
    THEN UtxoDelete(utxos, key)
    ELSE UtxoSet(utxos, key, (utxos[key] - 1 + CountWrap) % CountWrap)

\* Find(cu, key, bCreate) and then count = 1 or count++
UtxoIncrement(utxos, key) ==
    UtxoSet(utxos, key,
            IF key \in DOMAIN utxos THEN (utxos[key] + 1) % CountWrap ELSE 1)

\* The result of a HandleBlockElement: [ok, acc, v], v the element as the
\* call has left it
ElementResult(ok, acc, v) == [ok |-> ok, acc |-> acc, v |-> v]

\* HandleBlockElement(const Input&, ...), bFwd, after the traversal has
\* stopped at the leaf of maturity m (-1: there is no leaf in the range)
InputSpend(acc, v, m, bAdjustInputMaturity) ==
    IF m = -1
    THEN ElementResult(FALSE, acc, v)
    ELSE ElementResult(
             TRUE,
             [acc EXCEPT !.utxos = UtxoDecrement(acc.utxos, <<v.c, m>>)],
             IF bAdjustInputMaturity THEN [v EXCEPT !.m = m] ELSE v)

\* HandleBlockElement(const Input&, h, pHMax, bFwd, bAdjustInputMaturity)
HandleBlockElementInput(acc, v, h, pHMax, bFwd, bAdjustInputMaturity) ==
    IF ~bFwd
    THEN ElementResult(
             TRUE,
             [acc EXCEPT !.utxos = UtxoIncrement(acc.utxos, <<v.c, v.m>>)],
             v)
    ELSE IF bAdjustInputMaturity
    THEN InputSpend(acc, v,
                    UtxoFirstLeaf(acc.utxos, v.c, 0,
                                  IF pHMax # NoHMax THEN pHMax ELSE h),
                    TRUE)
    ELSE IF pHMax = NoHMax \/ v.m > pHMax
    THEN ElementResult(FALSE, acc, v)
    ELSE InputSpend(acc, v, UtxoFirstLeaf(acc.utxos, v.c, v.m, v.m), FALSE)

\* HandleBlockElement(const Output&, ...) once the key is known
OutputAtKey(acc, v, key, bFwd) ==
    IF bFwd
    THEN IF key \notin DOMAIN acc.utxos
         THEN ElementResult(
                  TRUE, [acc EXCEPT !.utxos = UtxoSet(acc.utxos, key, 1)], v)
         ELSE IF (acc.utxos[key] + 1) % CountWrap = 0
         THEN ElementResult(FALSE, acc, v)
         ELSE ElementResult(
                  TRUE,
                  [acc EXCEPT !.utxos = UtxoIncrement(acc.utxos, key)], v)
    ELSE IF key \notin DOMAIN acc.utxos
    \* Find created the leaf: its count is read before it is written
    THEN ElementResult(TRUE, [acc EXCEPT !.ub = TRUE], v)
    ELSE ElementResult(
             TRUE, [acc EXCEPT !.utxos = UtxoDecrement(acc.utxos, key)], v)

\* HandleBlockElement(const Output&, h, pHMax, bFwd)
HandleBlockElementOutput(acc, v, h, pHMax, bFwd) ==
    IF v.m >= HeightGenesis
    THEN IF pHMax = NoHMax \/ v.m < MinMaturity(v, h)
         THEN ElementResult(FALSE, acc, v)
         ELSE OutputAtKey(acc, v, <<v.c, v.m>>, bFwd)
    ELSE OutputAtKey(acc, v, <<v.c, MinMaturity(v, h)>>, bFwd)

\* HandleBlockElement(const TxKernel&, bFwd, bIsInput); v is the kernel id
HandleBlockElementKernel(acc, v, bFwd, bIsInput) ==
    IF bFwd # bIsInput
    THEN IF v \in acc.kernels
         THEN ElementResult(FALSE, acc, v)
         ELSE ElementResult(
                  TRUE, [acc EXCEPT !.kernels = acc.kernels \cup {v}], v)
    ELSE IF v \notin acc.kernels
         THEN ElementResult(FALSE, acc, v)
         ELSE ElementResult(
                  TRUE, [acc EXCEPT !.kernels = acc.kernels \ {v}], v)

\* A faulty ToggleSubsidyOpened: the flag is toggled, the key is not touched
ToggleSubsidyOpened_FlagOnly(acc) == [acc EXCEPT !.open = ~@]

\* ToggleSubsidyOpened
ToggleSubsidyOpened(acc) ==
    IF ZeroHash \notin acc.kernels
    THEN [acc EXCEPT !.open = FALSE, !.kernels = acc.kernels \cup {ZeroHash}]
    ELSE [acc EXCEPT !.open = TRUE, !.kernels = acc.kernels \ {ZeroHash}]

(***************************************************************************)
(* Block interpreter.  A transaction or body is                            *)
(* [ins, outs, kin, kout, subsidy, closing, offset, valid]: ins are        *)
(* [c, m], outs are [c, coinbase, m] (m = 0: no explicit maturity), kin    *)
(* and kout are kernel ids, valid is the verdict of the context-free       *)
(* verification of the body.                                               *)
(***************************************************************************)

\* One of the three HandleBlockElement overloads, by the group of the element
HandleBlockElement(kind, acc, v, h, pHMax, bFwd, bAdjustInputMaturity) ==
    CASE kind = "in" ->
           HandleBlockElementInput(acc, v, h, pHMax, bFwd, bAdjustInputMaturity)
      [] kind = "out" -> HandleBlockElementOutput(acc, v, h, pHMax, bFwd)
      [] kind = "kin" -> HandleBlockElementKernel(acc, v, bFwd, TRUE)
      [] kind = "kout" -> HandleBlockElementKernel(acc, v, bFwd, FALSE)

Tagged(kind, vs) == [i \in 1..Len(vs) |-> [kind |-> kind, v |-> vs[i]]]

\* TxBase::IReader: the elements in the order the four loops of
\* HandleValidatedTx read them
TxElements(tx) ==
    Tagged("in", tx.ins) \o Tagged("out", tx.outs)
        \o Tagged("kin", tx.kin) \o Tagged("kout", tx.kout)

\* The first n elements, those of the given group
Processed(es, n, kind) ==
    SelectSeq(SubSeq(es, 1, n), LAMBDA e : e.kind = kind)

\* The order in which HandleValidatedTx rolls the first n elements back
RollbackOrder(es, n) ==
    Processed(es, n, "kout") \o Processed(es, n, "kin")
        \o Processed(es, n, "out") \o Processed(es, n, "in")

\* The inputs as the forward pass has left them
InputsOf(es) ==
    LET s == SelectSeq(es, LAMBDA e : e.kind = "in")
    IN  [i \in 1..Len(s) |-> s[i].v]

RECURSIVE ForwardLoop(_, _, _, _, _, _, _)
RECURSIVE ForwardStep(_, _, _, _, _, _, _, _)

\* The four loops of HandleValidatedTx, which stop at the first element that
\* fails, from element i: [ok, acc, es, n], n the number of elements that
\* were processed.
ForwardLoop(acc, es, i, h, pHMax, bFwd, bAdjustInputMaturity) ==
    IF i > Len(es)
    THEN [ok |-> TRUE, acc |-> acc, es |-> es, n |-> Len(es)]
    ELSE ForwardStep(HandleBlockElement(es[i].kind, acc, es[i].v, h, pHMax,
                                        bFwd, bAdjustInputMaturity),
                     acc, es, i, h, pHMax, bFwd, bAdjustInputMaturity)

\* The step of the loops after HandleBlockElement has returned r
ForwardStep(r, acc, es, i, h, pHMax, bFwd, bAdjustInputMaturity) ==
    IF ~r.ok
    THEN [ok |-> FALSE, acc |-> acc, es |-> es, n |-> i - 1]
    ELSE ForwardLoop(r.acc, [es EXCEPT ![i] = [@ EXCEPT !.v = r.v]], i + 1, h,
                     pHMax, bFwd, bAdjustInputMaturity)

\* The four rollback loops of HandleValidatedTx over the elements es: every
\* element is handled in reverse mode, the results are not looked at.
RECURSIVE RollbackLoop(_, _, _, _, _)
RollbackLoop(acc, es, i, h, pHMax) ==
    IF i > Len(es)
    THEN acc
    ELSE RollbackLoop(HandleBlockElement(es[i].kind, acc, es[i].v, h, pHMax,
                                         FALSE, FALSE).acc,
                      es, i + 1, h, pHMax)

\* HandleValidatedTx after its four loops have returned r
TxResult(r, h, bFwd, pHMax) ==
    [ok |-> r.ok,
     acc |-> IF r.ok \/ ~bFwd THEN r.acc
             ELSE RollbackLoop(r.acc, RollbackOrder(r.es, r.n), 1, h, pHMax),
     ins |-> InputsOf(r.es),
     corrupted |-> ~r.ok /\ ~bFwd,
     n |-> r.n]

\* HandleValidatedTx(r, h, bFwd, bAdjustInputMaturity, pHMax):
\* [ok, acc, ins, corrupted, n]; corrupted: OnCorrupted() has thrown; n is
\* nInp + nOut + nKrnInp + nKrnOut, the elements that were processed.
HandleValidatedTx(acc, tx, h, bFwd, bAdjustInputMaturity, pHMax) ==
    TxResult(ForwardLoop(acc, TxElements(tx), 1, h, pHMax, bFwd,
                         bAdjustInputMaturity),
             h, bFwd, pHMax)

\* m_Extra.m_Subsidy and m_Extra.m_Offset after a block
AddExtra(acc, body, bFwd) ==
    [acc EXCEPT
        !.subsidy = IF bFwd THEN (@ + body.subsidy) % AmountWrap
                    ELSE (@ - body.subsidy + AmountWrap) % AmountWrap,
        !.offset = IF bFwd THEN (@ + body.offset) % ScalarOrder
                   ELSE (@ + ScalarOrder - body.offset) % ScalarOrder]

\* HandleValidatedBlock after HandleValidatedTx has returned r
BlockResult(r, body, bFwd) ==
    IF ~r.ok
    THEN r
    ELSE [r EXCEPT
            !.acc = AddExtra(IF body.closing THEN ToggleSubsidyOpened(@)
                             ELSE @,
                             body, bFwd)]

\* HandleValidatedBlock(r, body, h, bFwd, bAdjustInputMaturity, pHMax)
HandleValidatedBlock(acc, body, h, bFwd, bAdjustInputMaturity, pHMax) ==
    IF body.closing /\ (acc.open # bFwd)
    THEN [ok |-> FALSE, acc |-> acc, ins |-> body.ins, corrupted |-> FALSE,
          n |-> 0]
    ELSE BlockResult(HandleValidatedTx(acc, body, h, bFwd,
                                       bAdjustInputMaturity, pHMax),
                     body, bFwd)

(***************************************************************************)
(* The headers and bodies that peers deliver.                              *)
(*                                                                         *)
(* Header ids stand for header hashes.  1..MaxHeight is a chain of valid   *)
(* headers from genesis; ForkHdr is a second valid genesis header;         *)
(* ClaimHdr is a child of ForkHdr whose m_ChainWork claims more work than  *)
(* its difficulty adds.  InsaneHdr and BadPowHdr are two more children of   *)
(* ForkHdr, one that IsSane() refuses and one whose PoW is not valid.       *)
(* SideHdr is a valid second child of the header 1.  HardHdr is a child of  *)
(* the header 1 with a greater difficulty than the one that is due and the *)
(* chainwork that goes with it; OldHdr and MedianHdr are children of the   *)
(* header 2 whose timestamps are below and at the median of their chain.   *)
(* Side3Hdr and Side4Hdr continue SideHdr to the heights 3 and 4: the      *)
(* branch of SideHdr then has more chainwork than the chain 1..MaxHeight.  *)
(***************************************************************************)

ForkHdr == MaxHeight + 1
ClaimHdr == MaxHeight + 2
HdrIds == 1..(MaxHeight + 2)
InsaneHdr == MaxHeight + 3
BadPowHdr == MaxHeight + 4
SideHdr == MaxHeight + 5
HardHdr == MaxHeight + 6
OldHdr == MaxHeight + 7
MedianHdr == MaxHeight + 8
Side3Hdr == MaxHeight + 9
Side4Hdr == MaxHeight + 10
\* Every header a peer announces
SentHdrIds == HdrIds \cup {InsaneHdr, BadPowHdr}

\* Rules::get().StartDifficulty (packed)
StartDifficulty == 0
\* Difficulty::Inc(wrk, base): base plus the unpacked difficulty
DifficultyInc(d, base) == base + 2^d

\* Rules::get().MaxBodySize, in serialized elements
MaxBodySize == 8

\* SerializerSizeCounter & res, and the size of the blob of a body: the
\* fields of the body and its elements
BodySize(res) ==
    1 + Len(res.ins) + Len(res.outs) + Len(res.kin) + Len(res.kout)

\* The bodies a peer can send; valid is the verdict of Block::Body::IsValid
Bodies ==
    << \* 1 to 4: the blocks of the main chain
       [ins |-> << >>,
        outs |-> << [c |-> 1, coinbase |-> TRUE, m |-> 0] >>,
        kin |-> << >>, kout |-> << 1 >>,
        subsidy |-> CoinbaseEmission, closing |-> FALSE, offset |-> 1,
        valid |-> TRUE],
       [ins |-> << >>,
        outs |-> << [c |-> 2, coinbase |-> FALSE, m |-> 0],
                    [c |-> 2, coinbase |-> FALSE, m |-> 0] >>,
        kin |-> << >>, kout |-> << 2 >>,
        subsidy |-> CoinbaseEmission, closing |-> FALSE, offset |-> 2,
        valid |-> TRUE],
       [ins |-> << [c |-> 1, m |-> 0], [c |-> 2, m |-> 0] >>,
        outs |-> << [c |-> 1, coinbase |-> FALSE, m |-> 0] >>,
        kin |-> << >>, kout |-> << 3 >>,
        subsidy |-> CoinbaseEmission, closing |-> TRUE, offset |-> 3,
        valid |-> TRUE],
       [ins |-> << [c |-> 2, m |-> 0] >>,
        outs |-> << [c |-> 2, coinbase |-> TRUE, m |-> 0] >>,
        kin |-> << 2 >>, kout |-> << 2 >>,
        subsidy |-> 0, closing |-> FALSE, offset |-> 4,
        valid |-> TRUE],
       [ins |-> << >>,
        outs |-> << [c |-> 2, coinbase |-> TRUE, m |-> 0] >>,
        kin |-> << >>, kout |-> << >>,
        subsidy |-> CoinbaseEmission, closing |-> FALSE, offset |-> 1,
        valid |-> TRUE],
       [ins |-> << >>,
        outs |-> << [c |-> 2, coinbase |-> FALSE, m |-> 0] >>,
        kin |-> << >>, kout |-> << 2 >>,
        subsidy |-> CoinbaseEmission, closing |-> FALSE, offset |-> 2,
        valid |-> FALSE],
       \* 7: as many equal outputs as the multiplicity has values
       [ins |-> << >>,
        outs |-> [i \in 1..CountWrap |-> [c |-> 2, coinbase |-> FALSE, m |-> 0]],
        kin |-> << >>, kout |-> << 3 >>,
        subsidy |-> CoinbaseEmission, closing |-> FALSE, offset |-> 1,
        valid |-> TRUE],
       \* 8: equal coinbase outputs up to the greatest multiplicity
       [ins |-> << >>,
        outs |-> [i \in 1..(CountWrap - 1) |->
                     [c |-> 2, coinbase |-> TRUE, m |-> 0]],
        kin |-> << >>, kout |-> << 1 >>,
        subsidy |-> CoinbaseEmission, closing |-> FALSE, offset |-> 1,
        valid |-> TRUE],
       \* 9: spends and creates the same commitment
       [ins |-> << [c |-> 2, m |-> 0] >>,
        outs |-> << [c |-> 2, coinbase |-> FALSE, m |-> 0] >>,
        kin |-> << >>, kout |-> << 3 >>,
        subsidy |-> CoinbaseEmission, closing |-> FALSE, offset |-> 2,
        valid |-> TRUE],
       \* 10: consumes a kernel
       [ins |-> << >>,
        outs |-> << [c |-> 1, coinbase |-> FALSE, m |-> 0] >>,
        kin |-> << 1 >>, kout |-> << 3 >>,
        subsidy |-> CoinbaseEmission, closing |-> FALSE, offset |-> 3,
        valid |-> TRUE],
       \* 11: the same kernel twice
       [ins |-> << [c |-> 2, m |-> 0] >>,
        outs |-> << [c |-> 1, coinbase |-> FALSE, m |-> 0] >>,
        kin |-> << >>, kout |-> << 3, 3 >>,
        subsidy |-> CoinbaseEmission, closing |-> FALSE, offset |-> 4,
        valid |-> TRUE],
       \* 12: closes the subsidy and nothing else
       [ins |-> << >>, outs |-> << >>, kin |-> << >>, kout |-> << >>,
        subsidy |-> 0, closing |-> TRUE, offset |-> 0,
        valid |-> TRUE],
       \* 13: the same commitment spent twice
       [ins |-> << [c |-> 1, m |-> 0], [c |-> 1, m |-> 0] >>,
        outs |-> << >>,
        kin |-> << >>, kout |-> << 2 >>,
        subsidy |-> CoinbaseEmission, closing |-> FALSE, offset |-> 1,
        valid |-> TRUE],
       \* 14, 15, 16: bodies of macroblocks, with explicit maturities
       [ins |-> << >>,
        outs |-> << [c |-> 1, coinbase |-> TRUE,
                     m |-> HeightGenesis + MaturityCoinbase] >>,
        kin |-> << >>, kout |-> << 1 >>,
        subsidy |-> CoinbaseEmission, closing |-> FALSE, offset |-> 1,
        valid |-> TRUE],
       [ins |-> << [c |-> 1, m |-> HeightGenesis + MaturityCoinbase] >>,
        outs |-> << [c |-> 2, coinbase |-> FALSE, m |-> HeightGenesis + 1] >>,
        kin |-> << >>, kout |-> << 2 >>,
        subsidy |-> CoinbaseEmission, closing |-> FALSE, offset |-> 2,
        valid |-> TRUE],
       [ins |-> << >>,
        outs |-> << [c |-> 1, coinbase |-> TRUE, m |-> HeightGenesis] >>,
        kin |-> << >>, kout |-> << 3 >>,
        subsidy |-> CoinbaseEmission, closing |-> FALSE, offset |-> 3,
        valid |-> TRUE],
       \* 17: the blocks 1 and 2 of the main chain, squashed
       [ins |-> << >>,
        outs |-> << [c |-> 1, coinbase |-> TRUE,
                     m |-> HeightGenesis + MaturityCoinbase],
                    [c |-> 2, coinbase |-> FALSE,
                     m |-> HeightGenesis + 1 + MaturityStd],
                    [c |-> 2, coinbase |-> FALSE,
                     m |-> HeightGenesis + 1 + MaturityStd] >>,
        kin |-> << >>, kout |-> << 1, 2 >>,
        subsidy |-> 2 * CoinbaseEmission, closing |-> FALSE,
        offset |-> 3 % ScalarOrder,
        valid |-> TRUE],
       \* 18: a body that is larger than Rules::get().MaxBodySize
       [ins |-> [i \in 1..MaxBodySize |-> [c |-> 3, m |-> 0]],
        outs |-> << >>, kin |-> << >>, kout |-> << >>,
        subsidy |-> 0, closing |-> FALSE, offset |-> 0,
        valid |-> TRUE],
       \* 19: spends two of a commitment and creates two of it
       [ins |-> << [c |-> 2, m |-> 0], [c |-> 2, m |-> 0] >>,
        outs |-> << [c |-> 2, coinbase |-> FALSE, m |-> 0],
                    [c |-> 2, coinbase |-> FALSE, m |-> 0] >>,
        kin |-> << >>, kout |-> << 3 >>,
        subsidy |-> CoinbaseEmission, closing |-> FALSE, offset |-> 2,
        valid |-> TRUE] >>

BodyIds == 1..Len(Bodies)

\* The body whose post-state the header of the given height commits to
HonestBody(height) == IF height <= 4 THEN height ELSE 5

HdrHeight(id) ==
    IF id <= MaxHeight THEN id
    ELSE IF id = ForkHdr THEN 1
    ELSE IF id \in {OldHdr, MedianHdr, Side3Hdr} THEN 3
    ELSE IF id = Side4Hdr THEN 4
    ELSE 2
HdrPrev(id) ==
    IF id <= MaxHeight THEN id - 1
    ELSE IF id = ForkHdr THEN 0
    ELSE IF id \in {SideHdr, HardHdr} THEN 1
    ELSE IF id \in {OldHdr, MedianHdr} THEN 2
    ELSE IF id = Side3Hdr THEN SideHdr
    ELSE IF id = Side4Hdr THEN Side3Hdr
    ELSE ForkHdr

\* The header ids from genesis to id: what the history MMR up to and
\* including id is built from
RECURSIVE HdrChain(_)
HdrChain(id) == IF id = 0 THEN << >> ELSE Append(HdrChain(HdrPrev(id)), id)

\* Merkle::Interpret(Interpret(utxos, kernels, true), history, false)
Definition(acc, hvHist) == << << acc.utxos, acc.kernels >>, hvHist >>

\* The accumulators after the headers' own bodies up to id
RECURSIVE HonestAcc(_)
HonestAcc(id) ==
    IF id = 0 THEN EmptyAcc
    ELSE HandleValidatedBlock(HonestAcc(HdrPrev(id)),
                              Bodies[HonestBody(HdrHeight(id))],
                              HdrHeight(id), TRUE, TRUE, NoHMax).acc

\* m_Definition of the header id: the state after its own body
HdrDefinition(id) == Definition(HonestAcc(id), HdrChain(HdrPrev(id)))

\* Block::SystemState::Full of every header of the universe (m_Definition is
\* HdrDefinition)
Headers ==
    [id \in SentHdrIds \cup {SideHdr, HardHdr, OldHdr, MedianHdr, Side3Hdr,
                            Side4Hdr} |->
        [height |-> HdrHeight(id),
         prev |-> HdrPrev(id),
         chainwork |-> IF id = ClaimHdr THEN MaxHeight + 5
                       ELSE IF id = HardHdr THEN HdrHeight(id) + 1
                       ELSE HdrHeight(id),
         difficulty |-> IF id = HardHdr THEN StartDifficulty + 1
                        ELSE StartDifficulty,
         timestamp |-> IF id = OldHdr THEN 15
                       ELSE IF id = MedianHdr THEN 20
                       ELSE 10 * HdrHeight(id)
                                + (IF id <= MaxHeight THEN 0 ELSE 1),
         sane |-> id # InsaneHdr,
         pow |-> id # BadPowHdr]]

\* The bodies a peer sends for a header: the header's own, one whose kernel is
\* in use, one that leads to another state, one that is invalid in itself
SentBodies(id) == {HonestBody(Headers[id].height), 1, 5, 6}

\* The body that is too large to be taken
LargeBody == 18

(***************************************************************************)
(* The store (NodeDB).  The header graph is a function from row ids to     *)
(* rows; a header's row id is its header id.  A row is                     *)
(* [functional, active, body, rollback, peer]: body is a body id or 0,     *)
(* rollback is the journal [size, mats] (size in bytes), peer is a peer    *)
(* id or 0.  params holds the stored cursor and the ParamID values.  The   *)
(* operations that change the store take and give a record that has the    *)
(* fields states and params.                                               *)
(***************************************************************************)

\* sizeof(RollbackData::Utxo)
SizeofUtxo == 8

NoRollback == [size |-> 0, mats |-> << >>]

NewRow ==
    [functional |-> FALSE, active |-> FALSE, body |-> 0,
     rollback |-> NoRollback, peer |-> 0]

\* NodeDB::get_Prev: the row of the parent, 0 when there is none
DbPrev(states, row) ==
    IF row # 0 /\ HdrPrev(row) \in DOMAIN states THEN HdrPrev(row) ELSE 0

\* NodeDB::get_ChainWork
DbChainWork(row) == IF row = 0 THEN 0 ELSE Headers[row].chainwork

\* StateFlags::Reachable: a Functional path leads from genesis to the row
RECURSIVE Reachable(_, _)
Reachable(states, row) ==
    /\ row \in DOMAIN states
    /\ states[row].functional
    /\ \/ HdrHeight(row) = HeightGenesis
       \/ Reachable(states, DbPrev(states, row))

Children(states, row) == {r \in DOMAIN states : HdrPrev(r) = row}

\* NodeDB::EnumTips: the rows without children
Tips(states) == {r \in DOMAIN states : Children(states, r) = {}}

\* NodeDB::EnumFunctionalTips: the tips of the Reachable part of the graph
FunctionalTips(states) ==
    {r \in DOMAIN states :
        /\ Reachable(states, r)
        /\ \A c \in Children(states, r) : ~Reachable(states, c)}

\* The first row of EnumFunctionalTips: greatest chainwork first, then by row
BestFunctionalTip(states) ==
    Min({r \in FunctionalTips(states) :
            \A x \in FunctionalTips(states) : DbChainWork(x) <= DbChainWork(r)})

\* The first row of EnumTips: lowest height first, then by row
EarliestTip(states) ==
    Min({r \in Tips(states) :
            \A x \in Tips(states) : HdrHeight(x) >= HdrHeight(r)})

DbSet(states, row, field, val) ==
    [states EXCEPT ![row] = [@ EXCEPT ![field] = val]]

\* NodeDB::InsertState
InsertState(states, id) ==
    [r \in (DOMAIN states) \cup {id} |->
        IF r = id THEN NewRow ELSE states[r]]

\* NodeDB::DeleteState, for a row without children
DeleteState(states, row) ==
    [r \in (DOMAIN states) \ {row} |-> states[r]]

\* NodeDB::MoveFwd
MoveFwd(db, row) ==
    [db EXCEPT !.states = DbSet(@, row, "active", TRUE),
               !.params = [@ EXCEPT !.Cursor = row]]

\* NodeDB::MoveBack
MoveBack(db) ==
    [db EXCEPT !.states = DbSet(@, db.params.Cursor, "active", FALSE),
               !.params = [@ EXCEPT !.Cursor =
                               DbPrev(db.states, db.params.Cursor)]]

(***************************************************************************)
(* NodeProcessor.  The operations are functions of the processor           *)
(* p = [states, params, cursor, acc, horizon, ev, corrupted, ok]:          *)
(* states and params are the store, cursor is m_Cursor, acc the            *)
(* accumulators, horizon is m_Horizon, corrupted tells that OnCorrupted()  *)
(* has thrown, ok is what the last call that returns a bool has returned,  *)
(* and ev records what the running call did (the hooks it fired, the       *)
(* states it rolled back, the assertions that did not hold).               *)
(***************************************************************************)

\* The rows with the Active flag
ActiveRows(states) == {r \in DOMAIN states : states[r].active}

NoEvents ==
    [rolledBack |-> {}, visited |-> {}, asserts |-> {}, warnings |-> {},
     insane |-> {}, failed |-> {}, applied |-> {}, newState |-> 0,
     pruned |-> 0, tryGoUp |-> 0]

Ev(p, f, x) == [p EXCEPT !.ev = [@ EXCEPT ![f] = @ \cup {x}]]

\* An assert(cond) of the source, by its line
AssertAt(p, line, cond) == IF cond THEN p ELSE Ev(p, "asserts", line)

\* A LOG_WARNING() of the source, by its line
Warning(p, line) == Ev(p, "warnings", line)

\* OnCorrupted(): throws
OnCorrupted(p) == [p EXCEPT !.corrupted = TRUE, !.ok = FALSE]

\* return true; and LOG_WARNING() at the line, return false;
ReturnTrue(p) == [p EXCEPT !.ok = TRUE]
ReturnFalse(p, line) == [Warning(p, line) EXCEPT !.ok = FALSE]

\* ZeroObject(m_Cursor)
NullCursor ==
    [row |-> 0, height |-> 0, lo |-> 0, diffNext |-> StartDifficulty,
     history |-> << >>, historyNext |-> << >>]

\* m_Cursor.m_Full.m_ChainWork, m_Cursor.m_Full.m_PoW.m_Difficulty
CursorChainWork(cursor) == DbChainWork(cursor.row)
CursorDifficulty(cursor) ==
    IF cursor.row = 0 THEN 0 ELSE Headers[cursor.row].difficulty

\* FindActiveAtStrict(h): the Active row at height h, 0 when OnCorrupted()
FindActiveAtStrict(states, h) ==
    IF \E r \in DOMAIN states : HdrHeight(r) = h /\ states[r].active
    THEN Min({r \in DOMAIN states : HdrHeight(r) = h /\ states[r].active})
    ELSE 0

\* Rules::AdjustDifficulty over one review cycle
AdjustDifficulty(d, ts0, ts1) ==
    IF ts1 - ts0 < DifficultyReviewCycle THEN d + 1
    ELSE IF ts1 - ts0 > DifficultyReviewCycle /\ d > 0 THEN d - 1
    ELSE d

\* get_NextDifficulty, when the difficulty is reviewed against the row rowid
ReviewDifficulty(cursor, rowid) ==
    IF rowid = 0 THEN CursorDifficulty(cursor)
    ELSE AdjustDifficulty(CursorDifficulty(cursor), Headers[rowid].timestamp,
                          Headers[cursor.row].timestamp)

\* get_NextDifficulty
get_NextDifficulty(states, cursor) ==
    IF cursor.row = 0
    THEN StartDifficulty
    ELSE IF cursor.height = HeightGenesis
            \/ ((cursor.height - HeightGenesis) % DifficultyReviewCycle) # 0
    THEN CursorDifficulty(cursor)
    ELSE ReviewDifficulty(
             cursor,
             FindActiveAtStrict(states, cursor.height - DifficultyReviewCycle))

\* InitCursor up to m_Cursor.m_LoHorizon: m_Cursor as the store has it
LoadCursor(p, row) ==
    [p EXCEPT !.cursor =
        IF row # 0
        THEN [row |-> row,
              height |-> HdrHeight(row),
              lo |-> p.params.LoHorizon,
              diffNext |-> StartDifficulty,
              history |-> HdrChain(DbPrev(p.states, row)),
              historyNext |-> HdrChain(row)]
        ELSE NullCursor]

\* m_Cursor.m_DifficultyNext = get_NextDifficulty(), and the record of the
\* cursor that the processor now has
SetDifficultyNext(p) ==
    Ev([p EXCEPT !.cursor = [@ EXCEPT !.diffNext =
                                 get_NextDifficulty(p.states, p.cursor)]],
       "visited", [height |-> p.cursor.height, lo |-> p.cursor.lo])

\* InitCursor
InitCursor(p) == SetDifficultyNext(LoadCursor(p, p.params.Cursor))

\* The timestamps get_MovingMedian collects, walking back from row
RECURSIVE MedianWindow(_, _, _)
MedianWindow(states, row, vTs) ==
    IF Len(vTs) + 1 >= WindowForMedian \/ DbPrev(states, row) = 0
    THEN Append(vTs, Headers[row].timestamp)
    ELSE MedianWindow(states, DbPrev(states, row),
                      Append(vTs, Headers[row].timestamp))

\* std::sort(vTs); return vTs[vTs.size() >> 1];
MedianOf(vTs) == SortSeq(vTs, LAMBDA a, b : a < b)[(Len(vTs) \div 2) + 1]

\* get_MovingMedian
get_MovingMedian(p) ==
    IF p.cursor.row = 0 THEN 0
    ELSE MedianOf(MedianWindow(p.states, p.cursor.row, << >>))

\* VerifyBlock: Block::BodyBase::IsValid, the context-free verification
VerifyBlock(p, block) == block.valid

\* get_Definition(hv, hvHist)
get_Definition(p, hvHist) == Definition(p.acc, hvHist)

\* RollbackData::Import
RollbackImport(ins) ==
    IF ins = << >>
    THEN [size |-> 1, mats |-> << >>]
    ELSE [size |-> SizeofUtxo * Len(ins),
          mats |-> [i \in 1..Len(ins) |-> ins[i].m]]

\* RollbackData::Export: [ok, ins]; ~ok: OnCorrupted()
RollbackExport(rb, ins) ==
    IF ins = << >>
    THEN [ok |-> TRUE, ins |-> ins]
    ELSE IF SizeofUtxo * Len(ins) # rb.size
    THEN [ok |-> FALSE, ins |-> ins]
    ELSE [ok |-> TRUE,
          ins |-> [i \in 1..Len(ins) |-> [ins[i] EXCEPT !.m = rb.mats[i]]]]

\* Faulty checks: a timestamp that equals the median is taken
ChecksBeforeBlock_AtMedian(p, s, block, bFirstTime) ==
    IF ~bFirstTime THEN 0
    ELSE IF DifficultyInc(s.difficulty, CursorChainWork(p.cursor)) # s.chainwork
    THEN 398
    ELSE IF p.cursor.diffNext # s.difficulty THEN 404
    ELSE IF s.timestamp < get_MovingMedian(p) THEN 410
    ELSE IF ~VerifyBlock(p, block) THEN 416
    ELSE 0

\* HandleBlock, first time, before the block is interpreted: the line of the
\* warning with which it returns false, 0 when every check has passed
ChecksBeforeBlock(p, s, block, bFirstTime) ==
    IF ~bFirstTime THEN 0
    ELSE IF DifficultyInc(s.difficulty, CursorChainWork(p.cursor)) # s.chainwork
    THEN 398
    ELSE IF p.cursor.diffNext # s.difficulty THEN 404
    ELSE IF s.timestamp <= get_MovingMedian(p) THEN 410
    ELSE IF ~VerifyBlock(p, block) THEN 416
    ELSE 0

\* The end of the first-time branch when the definition does not match:
\* u is what the undo, HandleValidatedBlock in reverse mode, has returned
\* A faulty definition check: false is returned, the block is not undone
DefinitionMismatch_NoUndo(p, u) == [p EXCEPT !.ok = FALSE]

DefinitionMismatch(p, u) ==
    IF u.corrupted
    THEN OnCorrupted([p EXCEPT !.acc = u.acc])
    ELSE [p EXCEPT !.acc = u.acc, !.ok = FALSE]

\* if (m_Cursor.m_Sid.m_Height - m_Cursor.m_LoHorizon > MaxRollbackHeight) ...
SetLoHorizon(p) ==
    IF HeightSub(p.cursor.height, p.cursor.lo) > MaxRollbackHeight
    THEN [p EXCEPT
            !.cursor = [@ EXCEPT !.lo = HeightSub(p.cursor.height,
                                                  MaxRollbackHeight)],
            !.params = [@ EXCEPT !.LoHorizon = HeightSub(p.cursor.height,
                                                         MaxRollbackHeight)]]
    ELSE p

\* A faulty first-time branch: the rollback journal is not written
HandleBlockFirstTime_NoJournal(p, row, height, block) ==
    IF HdrDefinition(row) # get_Definition(p, p.cursor.historyNext)
    THEN DefinitionMismatch(
             Warning(p, 439),
             HandleValidatedBlock(p.acc, block, height, FALSE, FALSE, NoHMax))
    ELSE ReturnTrue(SetLoHorizon(
             AssertAt(p, 449, p.cursor.lo <= p.cursor.height)))

\* The first-time branch of HandleBlock after the block was applied: the
\* definition check, then the journal and m_LoHorizon, or the undo.
HandleBlockFirstTime(p, row, height, block) ==
    IF HdrDefinition(row) # get_Definition(p, p.cursor.historyNext)
    THEN DefinitionMismatch(
             Warning(p, 439),
             HandleValidatedBlock(p.acc, block, height, FALSE, FALSE, NoHMax))
    ELSE ReturnTrue(SetLoHorizon(
             AssertAt([p EXCEPT !.states = DbSet(@, row, "rollback",
                                                 RollbackImport(block.ins))],
                      449, p.cursor.lo <= p.cursor.height)))

\* A faulty end of HandleBlock: the journal is written again, from the
\* block as it was stored, whenever a block was applied
HandleBlockInterpreted_Rewrites(p, row, height, bFirstTime, block, r) ==
    IF r.corrupted
    THEN OnCorrupted([p EXCEPT !.acc = r.acc])
    ELSE IF ~r.ok
    THEN ReturnFalse([p EXCEPT !.acc = r.acc], 429)
    ELSE IF bFirstTime
    THEN HandleBlockFirstTime([p EXCEPT !.acc = r.acc], row, height,
                              [block EXCEPT !.ins = r.ins])
    ELSE ReturnTrue([p EXCEPT !.acc = r.acc,
                              !.states = DbSet(@, row, "rollback",
                                               RollbackImport(<< >>))])

\* HandleBlock after HandleValidatedBlock has returned r for the block
HandleBlockInterpreted(p, row, height, bFirstTime, block, r) ==
    IF r.corrupted
    THEN OnCorrupted([p EXCEPT !.acc = r.acc])
    ELSE IF ~r.ok
    THEN ReturnFalse([p EXCEPT !.acc = r.acc], 429)
    ELSE IF bFirstTime
    THEN HandleBlockFirstTime([p EXCEPT !.acc = r.acc], row, height,
                              [block EXCEPT !.ins = r.ins])
    ELSE ReturnTrue([p EXCEPT !.acc = r.acc])

\* HandleBlock once the block is deserialized; ex is what rbData.Export
\* gives for it
HandleBlockRead(p, row, height, bFwd, bFirstTime, block, ex) ==
    IF ChecksBeforeBlock(p, Headers[row], block, bFirstTime) # 0
    THEN ReturnFalse(p, ChecksBeforeBlock(p, Headers[row], block, bFirstTime))
    ELSE IF ~bFwd /\ ~ex.ok
    THEN OnCorrupted(p)
    ELSE HandleBlockInterpreted(
             p, row, height, bFirstTime,
             IF bFwd THEN block ELSE [block EXCEPT !.ins = ex.ins],
             HandleValidatedBlock(
                 p.acc, IF bFwd THEN block ELSE [block EXCEPT !.ins = ex.ins],
                 height, bFwd, bFwd, NoHMax))

\* HandleBlock(sid, bFwd), sid = (row, height)
HandleBlock(p, row, height, bFwd) ==
    IF p.states[row].body = 0
    THEN ReturnFalse(p, 379)  \* the deserialization of an empty buffer throws
    ELSE HandleBlockRead(
             IF bFwd THEN p
             ELSE AssertAt(p, 423, p.states[row].rollback.size # 0),
             row, height, bFwd,
             bFwd /\ p.states[row].rollback.size = 0,
             Bodies[p.states[row].body],
             RollbackExport(p.states[row].rollback,
                            Bodies[p.states[row].body].ins))

\* The record of a state that GoForward has made Active
Applied(p, row, active) ==
    ReturnTrue(Ev(p, "applied",
                  [row |-> row, active |-> active,
                   activeNext |-> ActiveRows(p.states)]))

\* A faulty end of GoForward: the peer stays, OnPeerInsane is not fired
PeerInsane_Forgiven(p, row, peer) == p

\* if (m_DB.get_Peer(row, peer)) { m_DB.set_Peer(row, NULL); OnPeerInsane(peer); }
PeerInsane(p, row, peer) ==
    IF peer # 0
    THEN Ev([p EXCEPT !.states = DbSet(@, row, "peer", 0)],
            "insane", [row |-> row, peer |-> peer])
    ELSE p

\* A faulty end of GoForward: the store is not moved forward
GoForwardEnd_NoMoveFwd(p, row, active) ==
    IF p.corrupted THEN p
    ELSE IF p.ok THEN Applied(InitCursor(p), row, active)
    ELSE PeerInsane(
             Ev([p EXCEPT !.states = DbSet(DbSet(@, row, "body", 0),
                                           row, "functional", FALSE),
                          !.ok = FALSE],
                "failed", row),
             row, p.states[row].peer)

\* A faulty end of GoForward: the body and the Functional flag of a state
\* that has failed are left in the store
GoForwardEnd_StillFunctional(p, row, active) ==
    IF p.corrupted THEN p
    ELSE IF p.ok THEN Applied(InitCursor(MoveFwd(p, row)), row, active)
    ELSE PeerInsane(Ev([p EXCEPT !.ok = FALSE], "failed", row),
                    row, p.states[row].peer)

\* GoForward after HandleBlock has returned
GoForwardEnd(p, row, active) ==
    IF p.corrupted THEN p
    ELSE IF p.ok THEN Applied(InitCursor(MoveFwd(p, row)), row, active)
    ELSE PeerInsane(
             Ev([p EXCEPT !.states = DbSet(DbSet(@, row, "body", 0),
                                           row, "functional", FALSE),
                          !.ok = FALSE],
                "failed", row),
             row, p.states[row].peer)

\* GoForward(row)
GoForward(p, row) ==
    GoForwardEnd(HandleBlock(p, row, HeightAdd(p.cursor.height, 1), TRUE),
                 row, ActiveRows(p.states))

\* The record of a state that Rollback has taken off the Active path
RolledBack(p, sid, active) ==
    Ev(p, "rolledBack",
       [row |-> sid.row, height |-> sid.height, lo |-> sid.lo,
        active |-> active, activeNext |-> ActiveRows(p.states)])

\* Rollback after HandleBlock has returned
RollbackEnd(p, sid, active) ==
    IF p.corrupted THEN RolledBack(p, sid, active)
    ELSE IF ~p.ok THEN OnCorrupted(RolledBack(p, sid, active))
    ELSE InitCursor(RolledBack(p, sid, active))

\* A faulty Rollback: the block of the cursor is not unapplied
Rollback_NoUnapply(p) ==
    InitCursor(RolledBack(InitCursor(MoveBack(p)), p.cursor,
                          ActiveRows(p.states)))

\* Rollback()
Rollback(p) ==
    RollbackEnd(HandleBlock(InitCursor(MoveBack(p)), p.cursor.row,
                            p.cursor.height, FALSE),
                p.cursor, ActiveRows(p.states))

\* PruneAt(h, bDeleteBody)
PruneAt(states, h, bDeleteBody) ==
    [r \in DOMAIN states |->
        IF HdrHeight(r) # h THEN states[r]
        ELSE [states[r] EXCEPT
                !.functional = IF states[r].active THEN @ ELSE FALSE,
                !.body = IF bDeleteBody THEN 0 ELSE @,
                !.peer = IF bDeleteBody THEN 0 ELSE @]]

\* A faulty branch deletion: the parent of the tip is deleted with it, other
\* children or not
DeleteBranch_Through(states, rowid) ==
    DeleteState(DeleteState(states, rowid), DbPrev(states, rowid))

\* do { if (!m_DB.DeleteState(rowid, rowid)) break; } while (rowid);
RECURSIVE DeleteBranch(_, _)
DeleteBranch(states, rowid) ==
    IF rowid = 0 \/ Children(states, rowid) # {}
    THEN states
    ELSE DeleteBranch(DeleteState(states, rowid), DbPrev(states, rowid))

RECURSIVE PruneBranches(_, _)
RECURSIVE PruneBranchOf(_, _, _)

\* The first loop of PruneOld: the tips below height h and their branches
PruneBranches(states, h) ==
    IF Tips(states) = {} THEN states
    ELSE PruneBranchOf(states, h, EarliestTip(states))

\* The body of the first loop of PruneOld for the first tip, rowid
PruneBranchOf(states, h, rowid) ==
    IF HdrHeight(rowid) >= h THEN states
    ELSE PruneBranches(DeleteBranch(states, rowid), h)

\* The second loop of PruneOld: for (hFossil = FossilHeight; ++hFossil < h; )
RECURSIVE PruneFossils(_, _, _)
PruneFossils(db, hFossil, h) ==
    IF hFossil + 1 >= h
    THEN db
    ELSE PruneFossils(
             [db EXCEPT !.states = PruneAt(@, hFossil + 1, TRUE),
                        !.params = [@ EXCEPT !.FossilHeight = hFossil + 1]],
             hFossil + 1, h)

\* PruneOld, the part of m_Horizon.m_Branching
PruneOldBranches(p) ==
    IF p.cursor.height >
           HeightSub(HeightAdd(p.horizon.Branching, HeightGenesis), 1)
    THEN [p EXCEPT !.states =
              PruneBranches(@, HeightSub(p.cursor.height, p.horizon.Branching))]
    ELSE p

\* A faulty PruneOld: fossils are left alone
PruneOldFossils_Never(p) == p

\* PruneOld, the part of m_Horizon.m_Schwarzschild
PruneOldFossils(p) ==
    IF p.cursor.height >
           HeightSub(HeightAdd(p.horizon.Schwarzschild, HeightGenesis), 1)
    THEN PruneFossils(
             p, p.params.FossilHeight,
             IF HeightSub(p.cursor.height, p.horizon.Schwarzschild)
                    > p.cursor.lo
             THEN p.cursor.lo
             ELSE HeightSub(p.cursor.height, p.horizon.Schwarzschild))
    ELSE p

\* PruneOld
PruneOld(p) ==
    [PruneOldFossils(PruneOldBranches(p)) EXCEPT
        !.ev = [@ EXCEPT !.pruned = @ + 1]]

\* A faulty hook: nothing is fired
OnNewState_Silent(p) == p

\* OnNewState hook
OnNewState(p) == [p EXCEPT !.ev = [@ EXCEPT !.newState = @ + 1]]

RECURSIVE CalcPath(_, _, _, _, _)
RECURSIVE GoForwardPath(_, _, _)
RECURSIVE GoForwardNext(_, _, _)
RECURSIVE TryGoUpLoop(_, _)
RECURSIVE TryGoUpTarget(_, _, _)
RECURSIVE TryGoUpPath(_)
RECURSIVE TryGoUpForward(_, _)

\* The path loop of TryGoUp: while (sidTrg.m_Row != m_Cursor.m_Sid.m_Row);
\* [p, vPath, bDirty]
CalcPath(p, sidTrg, wrkTrg, vPath, bDirty) ==
    IF p.corrupted \/ sidTrg = p.cursor.row
    THEN [p |-> p, vPath |-> vPath, bDirty |-> bDirty]
    ELSE IF CursorChainWork(p.cursor) > wrkTrg
    THEN CalcPath(Rollback(p), sidTrg, wrkTrg, vPath, TRUE)
    ELSE CalcPath(AssertAt(p, 198, sidTrg # 0), DbPrev(p.states, sidTrg),
                  DbChainWork(DbPrev(p.states, sidTrg)),
                  Append(vPath, sidTrg), bDirty)

\* for (size_t i = vPath.size(); i--; ) if (!GoForward(vPath[i])) ...
GoForwardPath(p, vPath, i) ==
    IF i = 0 THEN ReturnTrue(p)
    ELSE GoForwardNext(GoForward(p, vPath[i]), vPath, i)

\* The body of that loop after GoForward has returned
GoForwardNext(p, vPath, i) ==
    IF p.corrupted \/ ~p.ok THEN p ELSE GoForwardPath(p, vPath, i - 1)

\* The while (true) loop of TryGoUp: [p, bDirty]
TryGoUpLoop(p, bDirty) ==
    IF FunctionalTips(p.states) = {}
    THEN [p |-> AssertAt(p, 175, p.cursor.row = 0), bDirty |-> bDirty]
    ELSE TryGoUpTarget(p, bDirty, BestFunctionalTip(p.states))

\* A faulty loop body: a tip of equal chainwork is gone to as well
TryGoUpTarget_OnEqual(p, bDirty, sidTrg) ==
    TryGoUpPath(CalcPath(p, sidTrg, DbChainWork(sidTrg), << >>, bDirty))

\* The body of the loop for the first row of EnumFunctionalTips, sidTrg
TryGoUpTarget(p, bDirty, sidTrg) ==
    IF DbChainWork(sidTrg) = CursorChainWork(p.cursor)
    THEN [p |-> p, bDirty |-> bDirty]
    ELSE TryGoUpPath(
             CalcPath(AssertAt(p, 182,
                               DbChainWork(sidTrg) >= CursorChainWork(p.cursor)),
                      sidTrg, DbChainWork(sidTrg), << >>, bDirty))

\* The body of the loop after the path was calculated
TryGoUpPath(path) ==
    IF path.p.corrupted
    THEN [p |-> path.p, bDirty |-> path.bDirty]
    ELSE TryGoUpForward(
             GoForwardPath(path.p, path.vPath, Len(path.vPath)),
             path.bDirty \/ path.vPath # << >>)

\* A faulty end of the loop body: TryGoUp gives up when a state of the path
\* has failed
TryGoUpForward_NoRetry(p, bDirty) == [p |-> p, bDirty |-> bDirty]

\* The body of the loop after the states of the path were applied
TryGoUpForward(p, bDirty) ==
    IF p.corrupted \/ p.ok
    THEN [p |-> p, bDirty |-> bDirty]
    ELSE TryGoUpLoop(p, bDirty)

\* TryGoUp after its loop
TryGoUpEnd(r) ==
    IF r.p.corrupted THEN r.p
    ELSE IF r.bDirty THEN OnNewState(PruneOld(r.p))
    ELSE r.p

\* TryGoUp
TryGoUp(p) ==
    TryGoUpEnd(TryGoUpLoop([p EXCEPT !.ev = [@ EXCEPT !.tryGoUp = @ + 1]],
                           FALSE))

(***************************************************************************)
(* State of the processor and of its store                                 *)
(***************************************************************************)

VARIABLES
    states,    \* the header graph of the store, by row
    params,    \* the stored cursor, ParamID::LoHorizon, ParamID::FossilHeight
    cursor,    \* m_Cursor
    acc,       \* m_Utxos, m_Kernels, m_Extra
    horizon,   \* m_Horizon
    crashed,   \* OnCorrupted() has thrown: the process is over
    call       \* the last call of the public interface that changed the
               \* processor or its store, and what it did

vars == <<states, params, cursor, acc, horizon, crashed, call>>

\* The peer that announces the headers and the peer that sends the bodies
HeaderPeers == {1}
BodyPeers == {2}
\* getTimestamp(): a clock before and a clock after the headers' timestamps
Clocks == {(i - 1) * 100 : i \in 1..NumClocks}

Proc ==
    [states |-> states, params |-> params, cursor |-> cursor, acc |-> acc,
     horizon |-> horizon, ev |-> NoEvents, corrupted |-> FALSE,
     ok |-> TRUE]

\* The end of a public call.  The store transaction is committed, or, when
\* OnCorrupted() has thrown through it, rolled back by its destructor.  A
\* call that has changed nothing leaves no record.
Return(p, c) ==
    /\ states' = IF p.corrupted THEN states ELSE p.states
    /\ params' = IF p.corrupted THEN params ELSE p.params
    /\ cursor' = p.cursor
    /\ acc' = p.acc
    /\ horizon' = p.horizon
    /\ crashed' = p.corrupted
    /\ call' = IF /\ ~p.corrupted /\ p.states = states /\ p.params = params
                  /\ p.cursor = cursor /\ p.acc = acc
               THEN call
               ELSE [op |-> c.op,
                     id |-> IF c.ret \in {"Accepted", "true"} THEN c.id ELSE 0,
                     body |-> IF c.ret = "Accepted" THEN c.body ELSE 0,
                     peer |-> IF c.ret = "Accepted" THEN c.peer ELSE 0,
                     ret |-> c.ret, ev |-> p.ev]

\* Initialize() on an empty store with the default Horizon()
Init ==
    /\ states = [r \in {} |-> NewRow]
    /\ params = [Cursor |-> 0, LoHorizon |-> 0,
                 FossilHeight |-> HeightGenesis - 1]
    /\ cursor = NullCursor
    /\ acc = EmptyAcc
    /\ horizon = [Branching |-> HeightMax, Schwarzschild |-> HeightMax]
    /\ crashed = FALSE
    /\ call = [op |-> "Initialize", id |-> 0, body |-> 0, peer |-> 0,
               ret |-> "", ev |-> NoEvents]

\* A faulty OnStateInternal: a timestamp that is ahead by the threshold is
\* refused
OnStateInternal_AtThreshold(p, s, id, now, approve) ==
    IF ~s.sane THEN "Invalid"
    ELSE IF ~s.pow THEN "Invalid"
    ELSE IF s.timestamp > now /\ s.timestamp - now >= TimestampAheadThreshold_s
    THEN "Invalid"
    ELSE IF ~approve THEN "Invalid"
    ELSE IF s.height < p.cursor.lo THEN "Unreachable"
    ELSE IF id \in DOMAIN p.states THEN "Rejected"
    ELSE "Accepted"

\* OnStateInternal(s, id)
OnStateInternal(p, s, id, now, approve) ==
    IF ~s.sane THEN "Invalid"
    ELSE IF ~s.pow THEN "Invalid"
    ELSE IF s.timestamp > now /\ s.timestamp - now > TimestampAheadThreshold_s
    THEN "Invalid"
    ELSE IF ~approve THEN "Invalid"
    ELSE IF s.height < p.cursor.lo THEN "Unreachable"
    ELSE IF id \in DOMAIN p.states THEN "Rejected"
    ELSE "Accepted"

\* OnState after OnStateInternal has returned ret: what the call leaves
OnStateEnd(p, id, peer, ret) ==
    IF ret = "Accepted"
    THEN [p EXCEPT !.states = DbSet(InsertState(@, id), id, "peer", peer)]
    ELSE p

\* OnState(s, peer)
OnState(id, peer, now, approve) ==
    /\ ~crashed
    /\ Return(OnStateEnd(Proc, id, peer,
                         OnStateInternal(Proc, Headers[id], id, now, approve)),
              [op |-> "OnState", id |-> id, body |-> 0, peer |-> peer,
               ret |-> OnStateInternal(Proc, Headers[id], id, now, approve)])

\* A faulty OnBlock: TryGoUp is not called
OnBlockStored_NoTryGoUp(p, id) == p

\* OnBlock from the test of the Reachable flag on: p has the block in the row
OnBlockStored(p, id) ==
    IF Reachable(p.states, id) THEN TryGoUp(p) ELSE p

\* A faulty OnBlock: the size of the body is not looked at
OnBlockStatus_AnySize(p, id, block) ==
    IF id \notin DOMAIN p.states THEN "Rejected"
    ELSE IF p.states[id].functional THEN "Rejected"
    ELSE IF HdrHeight(id) < p.cursor.lo THEN "Unreachable"
    ELSE "Accepted"

\* OnBlock, the checks before the store is written: what the call returns
OnBlockStatus(p, id, block) ==
    IF BodySize(Bodies[block]) > MaxBodySize THEN "Invalid"
    ELSE IF id \notin DOMAIN p.states THEN "Rejected"
    ELSE IF p.states[id].functional THEN "Rejected"
    ELSE IF HdrHeight(id) < p.cursor.lo THEN "Unreachable"
    ELSE "Accepted"

\* OnBlock after those checks have given ret: what the call leaves
OnBlockEnd(p, id, block, peer, ret) ==
    IF ret = "Accepted"
    THEN OnBlockStored(
             [p EXCEPT !.states =
                 DbSet(DbSet(DbSet(@, id, "body", block),
                             id, "functional", TRUE),
                       id, "peer", peer)],
             id)
    ELSE p

\* OnBlock(id, block, peer)
OnBlock(id, block, peer) ==
    /\ ~crashed
    /\ Return(OnBlockEnd(Proc, id, block, peer,
                         OnBlockStatus(Proc, id, block)),
              [op |-> "OnBlock", id |-> id, body |-> block, peer |-> peer,
               ret |-> OnBlockStatus(Proc, id, block)])

\* The macroblocks that are offered for import: [hdrs, body], the headers of
\* a range of heights and the body of the range.  The chainwork of every
\* header but the first is the one the import computes for it.
MacroBlocks ==
    << [hdrs |-> << 1, 2 >>, body |-> 17],
       [hdrs |-> << 1 >>, body |-> 1],
       [hdrs |-> << 2 >>, body |-> 2],
       [hdrs |-> << 1, 2 >>, body |-> 1],
       [hdrs |-> << 2, 3 >>, body |-> 3],
       [hdrs |-> << ForkHdr >>, body |-> 6],
       [hdrs |-> << ClaimHdr >>, body |-> 5],
       [hdrs |-> << 2 >>, body |-> 5] >>

\* The header that the macroblock ends with
MacroTop(m) == m.hdrs[Len(m.hdrs)]

RECURSIVE ImportHeaders(_, _, _, _, _)
RECURSIVE ImportHeader(_, _, _, _, _, _)
RECURSIVE ImportPromote(_, _, _)

\* ImportMacroBlockInternal, the loop that verifies the headers, from the
\* header i on
ImportHeaders(p, hdrs, i, now, approve) ==
    IF i > Len(hdrs) THEN ReturnTrue(p)
    ELSE IF i = 1 /\ DifficultyInc(Headers[hdrs[1]].difficulty,
                                    CursorChainWork(p.cursor))
                        # Headers[hdrs[1]].chainwork
    THEN ReturnFalse(p, 1419)
    ELSE ImportHeader(p, hdrs, i, now, approve,
                      OnStateInternal(p, Headers[hdrs[i]], hdrs[i], now,
                                      approve))

\* The body of that loop after OnStateInternal has returned ret
ImportHeader(p, hdrs, i, now, approve, ret) ==
    IF ret = "Invalid" THEN ReturnFalse(p, 1433)
    ELSE ImportHeaders(IF ret = "Accepted"
                       THEN [p EXCEPT !.states = InsertState(@, hdrs[i])]
                       ELSE p,
                       hdrs, i + 1, now, approve)

\* ImportMacroBlockInternal, the loop that makes the states of the
\* macroblock Functional and Active, from the header i on
ImportPromote(p, hdrs, i) ==
    IF i > Len(hdrs) THEN p
    ELSE IF hdrs[i] \notin DOMAIN p.states THEN OnCorrupted(p)
    ELSE ImportPromote(
             MoveFwd([p EXCEPT !.states =
                         DbSet(DbSet(DbSet(@, hdrs[i], "functional", TRUE),
                                     hdrs[i], "body", 0),
                               hdrs[i], "peer", 0)],
                     hdrs[i]),
             hdrs, i + 1)

\* A faulty end of the import: FossilHeight is not set
ImportHorizon_LoOnly(p, h) ==
    IF p.corrupted THEN p
    ELSE ReturnTrue(InitCursor(
             [p EXCEPT !.params = [@ EXCEPT !.LoHorizon = h]]))

\* ParamSet(LoHorizon), ParamSet(FossilHeight), InitCursor, return true
ImportHorizon(p, h) ==
    IF p.corrupted THEN p
    ELSE ReturnTrue(InitCursor(
             [p EXCEPT !.params = [@ EXCEPT !.LoHorizon = h,
                                            !.FossilHeight = h]]))

\* The body that the reader of the macroblock m gives: one of the bodies
\* that peers offer (m.body), or the body that an export has written (m.block)
MacroBody(m) ==
    IF "block" \in DOMAIN m THEN m.block ELSE Bodies[m.body]

\* ImportMacroBlockInternal after HandleValidatedBlock has returned r
ImportApplied(p, m, h, r) ==
    IF ~r.ok
    THEN ReturnFalse([p EXCEPT !.acc = r.acc], 1457)
    ELSE IF HdrDefinition(MacroTop(m))
                # Definition(r.acc, HdrChain(HdrPrev(MacroTop(m))))
    THEN DefinitionMismatch(
             Warning([p EXCEPT !.acc = r.acc], 1468),
             HandleValidatedBlock(r.acc, MacroBody(m), h, FALSE, FALSE,
                                  HdrHeight(MacroTop(m))))
    ELSE ImportHorizon(ImportPromote([p EXCEPT !.acc = r.acc], m.hdrs, 1),
                       HdrHeight(MacroTop(m)))

\* ImportMacroBlockInternal after the headers were verified
ImportBody(p, m) ==
    IF ~p.ok THEN p
    ELSE IF ~VerifyBlock(p, MacroBody(m)) THEN ReturnFalse(p, 1449)
    ELSE ImportApplied(p, m, HeightAdd(p.cursor.height, 1),
                       HandleValidatedBlock(p.acc, MacroBody(m),
                                            HeightAdd(p.cursor.height, 1),
                                            TRUE, FALSE,
                                            HdrHeight(MacroTop(m))))

\* ImportMacroBlockInternal(r)
ImportMacroBlockInternal(p, m, now, approve) ==
    IF \/ HeightAdd(p.cursor.height, 1) # HdrHeight(m.hdrs[1])
       \/ p.cursor.row # HdrPrev(m.hdrs[1])
    THEN ReturnFalse(p, 1387)
    ELSE ImportBody(ImportHeaders(p, m.hdrs, 1, now, approve), m)

\* ImportMacroBlock after ImportMacroBlockInternal has returned: what the
\* call leaves
ImportMacroBlockEnd(p) ==
    IF p.corrupted \/ ~p.ok THEN p ELSE TryGoUp(p)

\* The end of a call whose transaction was committed before p was reached:
\* what was written to the store since is in the store, whether or not
\* OnCorrupted() has thrown
ReturnCommitted(p, c) ==
    /\ states' = p.states
    /\ params' = p.params
    /\ cursor' = p.cursor
    /\ acc' = p.acc
    /\ horizon' = p.horizon
    /\ crashed' = p.corrupted
    /\ call' = IF /\ ~p.corrupted /\ p.states = states /\ p.params = params
                  /\ p.cursor = cursor /\ p.acc = acc
               THEN call
               ELSE [op |-> c.op,
                     id |-> IF c.ret = "true" THEN c.id ELSE 0,
                     body |-> 0, peer |-> 0, ret |-> c.ret, ev |-> p.ev]

\* The end of ImportMacroBlock, ImportMacroBlockInternal having left p: when
\* it has thrown, the transaction is rolled back; when it has returned,
\* t.Commit() is called and then, after a true, TryGoUp()
ImportMacroBlockReturn(p, m) ==
    IF p.corrupted
    THEN Return(p, [op |-> "ImportMacroBlock", id |-> MacroTop(m),
                    body |-> 0, peer |-> 0, ret |-> ""])
    ELSE ReturnCommitted(
             ImportMacroBlockEnd(p),
             [op |-> "ImportMacroBlock", id |-> MacroTop(m),
              ret |-> IF p.ok THEN "true" ELSE "false"])

\* ImportMacroBlock(r)
ImportMacroBlock(m, now, approve) ==
    /\ ~crashed
    /\ ImportMacroBlockReturn(ImportMacroBlockInternal(Proc, m, now, approve),
                              m)

Next ==
    \/ \E id \in SentHdrIds, peer \in HeaderPeers, now \in Clocks,
          approve \in BOOLEAN :
           OnState(id, peer, now, approve)
    \/ \E id \in HdrIds, peer \in BodyPeers :
           \E block \in SentBodies(id) \cup {LargeBody} :
               OnBlock(id, block, peer)
    \/ \E i \in DOMAIN MacroBlocks, now \in Clocks, approve \in BOOLEAN :
           ImportMacroBlock(MacroBlocks[i], now, approve)

Spec == Init /\ [][Next]_vars

(***************************************************************************)
(* The processor with a Horizon that prunes: stale branches right below    *)
(* the cursor, fossils one height further down.  The headers are approved  *)
(* and not ahead of the clock, and a side branch forks off the main chain. *)
(***************************************************************************)

\* m_Horizon after Initialize (m_Schwarzschild is at least m_Branching and
\* at least Rules::get().MaxRollbackHeight)
Horizons == {[Branching |-> 0, Schwarzschild |-> 1]}

\* The headers that are announced, the bodies that are sent for a header
\* (its own and one that leads to another state), the clock
PruneHdrIds == (1..MaxHeight) \cup {ForkHdr, SideHdr}
PruneBodies(id) == {HonestBody(Headers[id].height), 5}
PruneClock == Max(Clocks)

\* Initialize() on an empty store with a Horizon of Horizons
InitPrune ==
    /\ states = [r \in {} |-> NewRow]
    /\ params = [Cursor |-> 0, LoHorizon |-> 0,
                 FossilHeight |-> HeightGenesis - 1]
    /\ cursor = NullCursor
    /\ acc = EmptyAcc
    /\ horizon \in Horizons
    /\ crashed = FALSE
    /\ call = [op |-> "Initialize", id |-> 0, body |-> 0, peer |-> 0,
               ret |-> "", ev |-> NoEvents]

NextPrune ==
    \/ \E id \in PruneHdrIds, peer \in HeaderPeers :
           OnState(id, peer, PruneClock, TRUE)
    \/ \E id \in PruneHdrIds, peer \in BodyPeers :
           \E block \in PruneBodies(id) : OnBlock(id, block, peer)
    \/ \E i \in DOMAIN MacroBlocks :
           ImportMacroBlock(MacroBlocks[i], PruneClock, TRUE)

SpecPrune == InitPrune /\ [][NextPrune]_vars

(***************************************************************************)
(* The processor with peers that also announce the headers whose           *)
(* difficulty, chainwork or timestamp does not continue their chain.       *)
(***************************************************************************)

CheckHdrIds == {1, 2, ForkHdr, ClaimHdr, HardHdr, OldHdr, MedianHdr}
CheckBodies(id) == {HonestBody(Headers[id].height)}

NextChecks ==
    \/ \E id \in CheckHdrIds, peer \in HeaderPeers :
           OnState(id, peer, PruneClock, TRUE)
    \/ \E id \in CheckHdrIds, peer \in BodyPeers :
           \E block \in CheckBodies(id) : OnBlock(id, block, peer)
    \/ \E i \in DOMAIN MacroBlocks :
           ImportMacroBlock(MacroBlocks[i], PruneClock, TRUE)

SpecChecks == Init /\ [][NextChecks]_vars

(***************************************************************************)
(* The processor that is started again on its store: Initialize with and   *)
(* without bResetCursor, on the store that the calls of a run have left,   *)
(* a run that OnCorrupted() has ended included.  No macroblock is kept in  *)
(* the store (EnumMacroblocks finds none).                                 *)
(***************************************************************************)

\* NodeDB::ResetCursor: no row is Active, the stored cursor is empty
ResetCursor(p) ==
    [p EXCEPT !.states = [r \in DOMAIN p.states |->
                             [p.states[r] EXCEPT !.active = FALSE]],
              !.params = [@ EXCEPT !.Cursor = 0]]

\* EnumBlocks, vPath: the rows from genesis to the Active row at the height
\* of the cursor, << >> when a row is missing on the way (OnCorrupted)
EnumBlocksPath(p) ==
    LET top == FindActiveAtStrict(p.states, p.cursor.height)
    IN  IF top = 0 \/ \E i \in DOMAIN HdrChain(top) :
                         HdrChain(top)[i] \notin DOMAIN p.states
        THEN << >>
        ELSE HdrChain(top)

\* EnumBlocks with the walker of InitializeFromBlocks, from the element i of
\* the path on
RECURSIVE EnumBlocksFrom(_, _, _)
EnumBlocksFrom(p, path, i) ==
    IF i > Len(path) THEN p
    ELSE IF p.states[path[i]].body = 0 THEN OnCorrupted(p)
    ELSE LET r == HandleValidatedBlock(p.acc, Bodies[p.states[path[i]].body],
                                       i, TRUE, TRUE, NoHMax)
         IN  IF r.corrupted \/ ~r.ok
             THEN OnCorrupted([p EXCEPT !.acc = r.acc])
             ELSE EnumBlocksFrom([p EXCEPT !.acc = r.acc], path, i + 1)

\* The final check of InitializeFromBlocks
InitializeFinalCheck(p) ==
    IF p.corrupted THEN p
    ELSE IF HdrDefinition(p.cursor.row) # get_Definition(p, p.cursor.history)
    THEN OnCorrupted(p)
    ELSE p

\* InitializeFromBlocks
InitializeFromBlocks(p) ==
    IF p.cursor.height < HeightGenesis THEN p
    ELSE IF EnumBlocksPath(p) = << >> THEN OnCorrupted(p)
    ELSE InitializeFinalCheck(EnumBlocksFrom(p, EnumBlocksPath(p), 1))

\* m_Horizon.m_Schwarzschild = max(m_Schwarzschild, m_Branching,
\* MaxRollbackHeight)
InitializeHorizon(p) ==
    [p EXCEPT !.horizon =
        [@ EXCEPT !.Schwarzschild =
            Max({p.horizon.Schwarzschild, p.horizon.Branching,
                 MaxRollbackHeight})]]

\* A faulty Initialize: TryGoUp is called whether or not the cursor was reset
InitializeEnd_Always(p, bResetCursor) ==
    IF p.corrupted THEN p ELSE TryGoUp(InitializeHorizon(p))

\* Initialize after InitializeFromBlocks has left p
InitializeEnd(p, bResetCursor) ==
    IF p.corrupted THEN p
    ELSE IF ~bResetCursor THEN TryGoUp(InitializeHorizon(p))
    ELSE InitializeHorizon(p)

\* Initialize up to InitializeFromBlocks, on the store of the processor p
\* and with empty accumulators
InitializeStart(p, bResetCursor) ==
    InitializeFromBlocks(
        InitCursor(IF bResetCursor
                   THEN ResetCursor([p EXCEPT !.acc = EmptyAcc])
                   ELSE [p EXCEPT !.acc = EmptyAcc]))

\* The end of Initialize.  ResetCursor is written to the store as it is
\* called; what TryGoUp writes is committed with its transaction, or rolled
\* back when OnCorrupted() has thrown through it.
InitializeReturn(s, p, bResetCursor) ==
    /\ states' = IF p.corrupted THEN s.states ELSE p.states
    /\ params' = IF p.corrupted THEN s.params ELSE p.params
    /\ cursor' = p.cursor
    /\ acc' = p.acc
    /\ horizon' = p.horizon
    /\ crashed' = p.corrupted
    /\ call' = [op |-> "Initialize", id |-> 0, body |-> 0, peer |-> 0,
                ret |-> IF bResetCursor THEN "reset" ELSE "kept",
                ev |-> p.ev]

\* Initialize(szPath, bResetCursor) of a new processor on the store
Initialize(bResetCursor) ==
    InitializeReturn(
        IF bResetCursor THEN ResetCursor(Proc) ELSE Proc,
        InitializeEnd(InitializeStart(Proc, bResetCursor), bResetCursor),
        bResetCursor)

\* The headers that are announced and the bodies that are sent for a header
RestartHdrIds == (1..MaxHeight) \cup {ForkHdr, SideHdr}
RestartBodies(id) == {HonestBody(Headers[id].height), 5}

NextRestart ==
    \/ \E id \in RestartHdrIds, peer \in HeaderPeers :
           OnState(id, peer, PruneClock, TRUE)
    \/ \E id \in RestartHdrIds, peer \in BodyPeers :
           \E block \in RestartBodies(id) : OnBlock(id, block, peer)
    \/ \E bResetCursor \in BOOLEAN : Initialize(bResetCursor)

SpecRestart == Init /\ [][NextRestart]_vars

(***************************************************************************)
(* The export of a macroblock.  The blocks of the Active rows of a range   *)
(* of heights are read from the store, with the maturities of their        *)
(* inputs from the journals, and squashed into one body.  The export is    *)
(* followed by the import of what was written into a processor with an     *)
(* empty store; the call leaves the macroblock and what the import gave.   *)
(* The blocks of the chain are the ones that OnState and OnBlock have      *)
(* accepted.                                                               *)
(***************************************************************************)

\* ExtractBlockWithExtra(block, sid)
ExtractBlockWithExtra(p, row) ==
    LET block == Bodies[p.states[row].body]
    IN  [block EXCEPT
            !.ins = RollbackExport(p.states[row].rollback, block.ins).ins,
            !.outs = [i \in DOMAIN block.outs |->
                         [block.outs[i] EXCEPT
                             !.m = MinMaturity(block.outs[i], HdrHeight(row))]]]

\* Block::BodyBase::Merge
BodyMerge(trg, next) ==
    [trg EXCEPT !.subsidy = (@ + next.subsidy) % AmountWrap,
                !.offset = (@ + next.offset) % ScalarOrder,
                !.closing = @ \/ next.closing,
                !.valid = @ /\ next.valid]

\* The spent element b takes the created element a away: a kernel of the
\* same id, an output of the same commitment and maturity
Cancels(a, b, bUtxo) ==
    IF bUtxo THEN a.c = b.c /\ a.m = b.m ELSE a = b

UtxoBefore(a, b) == a.c < b.c \/ (a.c = b.c /\ a.m < b.m)

\* The sequence without its first element that v cancels
RECURSIVE WithoutFirst(_, _, _)
WithoutFirst(vs, v, bUtxo) ==
    IF vs = << >> THEN << >>
    ELSE IF Cancels(Head(vs), v, bUtxo) THEN Tail(vs)
    ELSE << Head(vs) >> \o WithoutFirst(Tail(vs), v, bUtxo)

\* The elements of the earlier body (created) and of the later body (spent)
\* that are left when each spent element has cancelled a created one that
\* matches it
RECURSIVE CancelPairs(_, _, _)
CancelPairs(created, spent, bUtxo) ==
    IF spent = << >> THEN [created |-> created, spent |-> << >>]
    ELSE IF \E i \in DOMAIN created : Cancels(created[i], Head(spent), bUtxo)
    THEN CancelPairs(WithoutFirst(created, Head(spent), bUtxo), Tail(spent),
                     bUtxo)
    ELSE LET r == CancelPairs(created, Tail(spent), bUtxo)
         IN  [r EXCEPT !.spent = << Head(spent) >> \o @]

\* A faulty Combine: nothing is cancelled
Combine_NoCancel(trg, r0, r1) ==
    [trg EXCEPT !.ins = SortSeq(r0.ins \o r1.ins, UtxoBefore),
                !.outs = SortSeq(r0.outs \o r1.outs, UtxoBefore),
                !.kin = SortSeq(r0.kin \o r1.kin, <),
                !.kout = SortSeq(r0.kout \o r1.kout, <)]

\* Block::Body::Writer(trg).Combine(r0, r1, bStop): the elements of the
\* earlier body r0 and of the later body r1, in their order, without the
\* outputs of r0 that inputs of r1 spend and without those inputs
Combine(trg, r0, r1) ==
    LET u == CancelPairs(r0.outs, r1.ins, TRUE)
        k == CancelPairs(r0.kout, r1.kin, FALSE)
    IN  [trg EXCEPT !.ins = SortSeq(r0.ins \o u.spent, UtxoBefore),
                    !.outs = SortSeq(u.created \o r1.outs, UtxoBefore),
                    !.kin = SortSeq(r0.kin \o k.spent, <),
                    !.kout = SortSeq(k.created \o r1.kout, <)]

\* SquashOnce(v): trg is the last but one, src0 the last element of v
SquashOnce(v) ==
    Append(SubSeq(v, 1, Len(v) - 2),
           Combine(BodyMerge(v[Len(v) - 1], v[Len(v)]), v[Len(v)],
                   v[Len(v) - 1]))

\* for (uint32_t j = i; 1 & j; j >>= 1) SquashOnce(vBlocks);
RECURSIVE SquashBits(_, _)
SquashBits(v, j) ==
    IF j % 2 = 1 THEN SquashBits(SquashOnce(v), j \div 2) ELSE v

\* while (vBlocks.size() > 1) SquashOnce(vBlocks);
RECURSIVE SquashAll(_)
SquashAll(v) == IF Len(v) > 1 THEN SquashAll(SquashOnce(v)) ELSE v

\* The loop of ExportMacroBlock from its round i on, sid on the row: vBlocks
\* when the loop is left, << >> when the body of a row is not in the store
\* or the row has no predecessor (the call throws)
RECURSIVE ExportBlocks(_, _, _, _, _)
ExportBlocks(p, row, hMin, i, v) ==
    IF p.states[row].body = 0 THEN << >>
    ELSE IF hMin = HdrHeight(row)
    THEN Append(v, ExtractBlockWithExtra(p, row))
    ELSE IF DbPrev(p.states, row) = 0 THEN << >>
    ELSE ExportBlocks(p, DbPrev(p.states, row), hMin, i + 1,
                      SquashBits(Append(v, ExtractBlockWithExtra(p, row)), i))

\* ExportHdrRange: the headers of the Active rows of the heights hMin..hMax
RECURSIVE ExportHdrRange(_, _, _)
ExportHdrRange(p, row, hMin) ==
    IF HdrHeight(row) = hMin THEN << row >>
    ELSE Append(ExportHdrRange(p, DbPrev(p.states, row), hMin), row)

\* ExportMacroBlock(w, hr): what is written to w, [hdrs, block]; ok is false
\* when the call has thrown
ExportMacroBlock(p, hMin, hMax) ==
    LET sid == FindActiveAtStrict(p.states, hMax)
        vBlocks == ExportBlocks(p, sid, hMin, 0, << >>)
    IN  IF vBlocks = << >>
        THEN [ok |-> FALSE, hdrs |-> << >>]
        ELSE [ok |-> TRUE, hdrs |-> ExportHdrRange(p, sid, hMin),
              block |-> SquashAll(vBlocks)[1]]

\* A processor after Initialize on an empty store
FreshProcessor ==
    [states |-> [r \in {} |-> NewRow],
     params |-> [Cursor |-> 0, LoHorizon |-> 0,
                 FossilHeight |-> HeightGenesis - 1],
     cursor |-> NullCursor, acc |-> EmptyAcc,
     horizon |-> [Branching |-> HeightMax, Schwarzschild |-> HeightMax],
     ev |-> NoEvents, corrupted |-> FALSE, ok |-> TRUE]

\* ImportMacroBlock(r) of the macroblock m into a processor with an empty
\* store
ImportedFresh(m) ==
    ImportMacroBlockEnd(
        ImportMacroBlockInternal(FreshProcessor, m, PruneClock, TRUE))

\* The block of the header id as a peer sends it to the processor p, the
\* header first: OnState(s, peer) and then OnBlock(id, block, peer)
LiveBlock(p, id, block) ==
    LET q == OnStateEnd(p, id, 1,
                        OnStateInternal(p, Headers[id], id, PruneClock, TRUE))
    IN  OnBlockEnd(q, id, block, 2, OnBlockStatus(q, id, block))

\* ExportMacroBlock(w, [HeightGenesis, cursor height]), and the import of w
ExportAndImport ==
    /\ ~crashed
    /\ cursor.height >= HeightGenesis
    /\ UNCHANGED <<states, params, cursor, acc, horizon, crashed>>
    /\ call' = LET m == ExportMacroBlock(Proc, HeightGenesis, cursor.height)
               IN  [op |-> "ExportMacroBlock", id |-> cursor.row,
                    body |-> 0, peer |-> 0, ret |-> "", ev |-> NoEvents,
                    m |-> m,
                    imported |-> IF m.ok THEN ImportedFresh(m)
                                 ELSE FreshProcessor]

\* The headers that are announced and the bodies that are sent for a header
ExportHdrIds == (1..MaxHeight) \cup {ForkHdr, SideHdr}
ExportBodies(id) == {HonestBody(Headers[id].height), 5}

NextExport ==
    \/ \E id \in ExportHdrIds, peer \in HeaderPeers :
           OnState(id, peer, PruneClock, TRUE)
    \/ \E id \in ExportHdrIds, peer \in BodyPeers :
           \E block \in ExportBodies(id) : OnBlock(id, block, peer)
    \/ ExportAndImport

SpecExport == Init /\ [][NextExport]_vars

(***************************************************************************)
(* TryGoUp step by step.  OnBlock stores the body and, when the state is   *)
(* Reachable, enters TryGoUp; each round of the while (true) loop, of the  *)
(* path loop and of the loop over vPath is a step of its own, on the       *)
(* processor as the steps before have left it.  While TryGoUp runs, call   *)
(* is [op, pc, id, body, peer, pre, start, sidTrg, wrkTrg, vPath, i,       *)
(* bDirty, bFailed, outer, ev]: pc is the position in TryGoUp, pre the     *)
(* store at the begin of the transaction, start the processor when TryGoUp *)
(* was entered, sidTrg, wrkTrg, vPath, i and bDirty the locals of TryGoUp, *)
(* bFailed that the last GoForward has returned false, outer the rounds of *)
(* the while (true) loop that were begun.                                  *)
(***************************************************************************)

\* TryGoUp is running
Stepping == "pc" \in DOMAIN call

\* The processor in the course of TryGoUp
StepProc == [Proc EXCEPT !.ev = call.ev]

\* A step of TryGoUp has left p and the locals c; when OnCorrupted() has
\* thrown, the transaction of OnBlock is rolled back and the call is over
StepReturn(p, c) ==
    /\ states' = IF p.corrupted THEN call.pre.states ELSE p.states
    /\ params' = IF p.corrupted THEN call.pre.params ELSE p.params
    /\ cursor' = p.cursor
    /\ acc' = p.acc
    /\ horizon' = p.horizon
    /\ crashed' = p.corrupted
    /\ call' = IF p.corrupted
               THEN [op |-> "OnBlock", id |-> 0, body |-> 0, peer |-> 0,
                     ret |-> "", ev |-> p.ev, outer |-> call.outer,
                     start |-> call.start]
               ELSE [c EXCEPT !.ev = p.ev]

\* OnBlock(id, block, peer) up to TryGoUp: the body is stored; the call is
\* over when the state is not Reachable, and is at the head of the loop of
\* TryGoUp when it is
StepOnBlock(id, block, peer) ==
    /\ ~crashed /\ ~Stepping
    /\ OnBlockStatus(Proc, id, block) = "Accepted"
    /\ LET q == [Proc EXCEPT !.states =
                     DbSet(DbSet(DbSet(@, id, "body", block),
                                 id, "functional", TRUE),
                           id, "peer", peer)]
       IN  /\ states' = q.states
           /\ UNCHANGED <<params, cursor, acc, horizon, crashed>>
           /\ call' = IF Reachable(q.states, id)
                      THEN [op |-> "OnBlock", pc |-> "loop", id |-> id,
                            body |-> block, peer |-> peer,
                            pre |-> [states |-> states, params |-> params],
                            start |-> q, sidTrg |-> 0, wrkTrg |-> 0,
                            vPath |-> << >>, i |-> 0, bDirty |-> FALSE,
                            bFailed |-> FALSE, outer |-> 0,
                            ev |-> [NoEvents EXCEPT !.tryGoUp = 1]]
                      ELSE [op |-> "OnBlock", id |-> id, body |-> block,
                            peer |-> peer, ret |-> "Accepted",
                            ev |-> NoEvents]

\* The head of the while (true) loop: EnumFunctionalTips and the two breaks
StepLoop ==
    /\ Stepping /\ call.pc = "loop"
    /\ LET p == StepProc
           c == [call EXCEPT !.outer = @ + 1, !.bFailed = FALSE]
       IN  IF FunctionalTips(states) = {}
           THEN StepReturn(AssertAt(p, 175, cursor.row = 0),
                           [c EXCEPT !.pc = "end"])
           ELSE IF DbChainWork(BestFunctionalTip(states))
                       = CursorChainWork(cursor)
           THEN StepReturn(p, [c EXCEPT !.pc = "end"])
           ELSE StepReturn(
                    AssertAt(p, 182,
                             DbChainWork(BestFunctionalTip(states))
                                 >= CursorChainWork(cursor)),
                    [c EXCEPT !.pc = "path",
                              !.sidTrg = BestFunctionalTip(states),
                              !.wrkTrg =
                                  DbChainWork(BestFunctionalTip(states)),
                              !.vPath = << >>])

\* A round of while (sidTrg.m_Row != m_Cursor.m_Sid.m_Row), or its end
StepPath ==
    /\ Stepping /\ call.pc = "path"
    /\ LET p == StepProc
       IN  IF call.sidTrg = cursor.row
           THEN StepReturn(p, [call EXCEPT !.pc = "forward",
                                           !.i = Len(call.vPath)])
           ELSE IF CursorChainWork(cursor) > call.wrkTrg
           THEN StepReturn(Rollback(p), [call EXCEPT !.bDirty = TRUE])
           ELSE StepReturn(
                    AssertAt(p, 198, call.sidTrg # 0),
                    [call EXCEPT
                        !.vPath = Append(@, call.sidTrg),
                        !.sidTrg = DbPrev(states, call.sidTrg),
                        !.wrkTrg = DbChainWork(DbPrev(states, call.sidTrg))])

\* A round of for (size_t i = vPath.size(); i--; ), or its end
StepForward ==
    /\ Stepping /\ call.pc = "forward"
    /\ IF call.i = 0
       THEN StepReturn(StepProc, [call EXCEPT !.pc = "end"])
       ELSE LET p == GoForward(StepProc, call.vPath[call.i])
            IN  StepReturn(p,
                           IF p.ok
                           THEN [call EXCEPT !.bDirty = TRUE, !.i = @ - 1]
                           ELSE [call EXCEPT !.bDirty = TRUE, !.pc = "loop",
                                             !.bFailed = TRUE])

\* After the loop: PruneOld and OnNewState when bDirty; OnBlock returns
StepEnd ==
    /\ Stepping /\ call.pc = "end"
    /\ LET p == IF call.bDirty THEN OnNewState(PruneOld(StepProc))
                ELSE StepProc
       IN  StepReturn(p,
                      [op |-> "OnBlock", id |-> call.id, body |-> call.body,
                       peer |-> call.peer, ret |-> "Accepted", ev |-> p.ev,
                       outer |-> call.outer, start |-> call.start])

\* A step of the TryGoUp that is running
TryGoUpStep == StepLoop \/ StepPath \/ StepForward \/ StepEnd

\* The headers that are announced and the bodies that are sent for a header
StepHdrIds == (1..MaxHeight) \cup {SideHdr, HardHdr}
StepBodies(id) == {HonestBody(Headers[id].height), 5}

NextSteps ==
    \/ \E id \in StepHdrIds, peer \in HeaderPeers :
           ~Stepping /\ OnState(id, peer, PruneClock, TRUE)
    \/ \E id \in StepHdrIds, peer \in BodyPeers :
           \E block \in StepBodies(id) : StepOnBlock(id, block, peer)
    \/ StepLoop
    \/ StepPath
    \/ StepForward
    \/ StepEnd

\* The steps of a TryGoUp that was entered are taken: weak fairness of
\* TryGoUpStep, WF_vars(TryGoUpStep), with ENABLED <<TryGoUpStep>>_vars
\* written as Stepping (a step is possible at every position of TryGoUp and
\* changes call)
SpecSteps ==
    /\ Init
    /\ [][NextSteps]_vars
    /\ ([]<>(~Stepping) \/ []<><<TryGoUpStep>>_vars)

(***************************************************************************)
(* TryGoUp step by step on a header graph with a branch that leaves the    *)
(* chain 1..MaxHeight at the height 1 and grows past it: the reorg to it   *)
(* rolls back more than MaxRollbackHeight states.                          *)
(***************************************************************************)

DeepHdrIds == (1..MaxHeight) \cup {SideHdr, Side3Hdr, Side4Hdr}

NextDeep ==
    \/ \E id \in DeepHdrIds, peer \in HeaderPeers :
           ~Stepping /\ OnState(id, peer, PruneClock, TRUE)
    \/ \E id \in DeepHdrIds, peer \in BodyPeers :
           StepOnBlock(id, HonestBody(Headers[id].height), peer)
    \/ StepLoop
    \/ StepPath
    \/ StepForward
    \/ StepEnd

SpecDeep == Init /\ [][NextDeep]_vars

(***************************************************************************)
(* The block interpreter on its own.  The headers of the main chain are    *)
(* known; a block of any content is applied on top of the cursor, in the   *)
(* mode of a block (InterpApply), in the mode of a macroblock              *)
(* (InterpApplyMacro, over the heights up to hMax) or as the body that     *)
(* was delivered for the next header of the main chain (InterpGoForward);  *)
(* InterpUnapply reverts the block that was applied last.  call is         *)
(* [op, ok, body, h, hmax, pre, n, warnings]: the interpreter call, its    *)
(* result, the body that it applied with the maturities of its inputs, the *)
(* accumulators before it, the number of elements it had processed when it *)
(* failed and the warnings it logged.                                      *)
(***************************************************************************)

\* Block::Body::ZeroInit()
EmptyBody ==
    [ins |-> << >>, outs |-> << >>, kin |-> << >>, kout |-> << >>,
     subsidy |-> 0, closing |-> FALSE, offset |-> 0, valid |-> TRUE]

\* The bodies that are applied in the mode of a macroblock
MacroBodyIds == {3, 14, 15, 16}

\* What the call has left for the properties
InterpCall(op, r, body, h, hMax, pre, warnings) ==
    [op |-> op, ok |-> r.ok,
     body |-> IF r.ok THEN [body EXCEPT !.ins = r.ins] ELSE EmptyBody,
     h |-> IF r.ok THEN h ELSE 0,
     hmax |-> IF r.ok THEN hMax ELSE NoHMax,
     pre |-> pre,
     n |-> IF r.ok THEN 0 ELSE r.n,
     warnings |-> warnings]

\* The store and the cursor once the rows of the heights h..hTop are Active
InterpAdvance(p, h, hTop, b, ins) ==
    InitCursor(
        [p EXCEPT
            !.states = [r \in DOMAIN p.states |->
                           IF r \in h..hTop
                           THEN [p.states[r] EXCEPT
                                    !.functional = TRUE, !.active = TRUE,
                                    !.body = IF h = hTop THEN b ELSE 0,
                                    !.rollback = IF h = hTop
                                                 THEN RollbackImport(ins)
                                                 ELSE NoRollback]
                           ELSE p.states[r]],
            !.params = [@ EXCEPT !.Cursor = hTop]])

\* The store and the cursor once the rows from height h on are not Active
InterpRetreat(p, h) ==
    InitCursor(
        [p EXCEPT
            !.states = [r \in DOMAIN p.states |->
                           IF r >= h
                           THEN [NewRow EXCEPT !.peer = p.states[r].peer]
                           ELSE p.states[r]],
            !.params = [@ EXCEPT !.Cursor = h - 1]])

InterpReturn(p, c) ==
    /\ states' = p.states
    /\ params' = p.params
    /\ cursor' = p.cursor
    /\ acc' = p.acc
    /\ horizon' = p.horizon
    /\ crashed' = p.corrupted
    /\ call' = c

\* The headers of the main chain were accepted, no body was delivered
InterpInit ==
    /\ states = [r \in 1..MaxHeight |-> [NewRow EXCEPT !.peer = 1]]
    /\ params = [Cursor |-> 0, LoHorizon |-> 0,
                 FossilHeight |-> HeightGenesis - 1]
    /\ cursor = NullCursor
    /\ acc = EmptyAcc
    /\ horizon = [Branching |-> HeightMax, Schwarzschild |-> HeightMax]
    /\ crashed = FALSE
    /\ call = [op |-> "Initialize", ok |-> TRUE, body |-> EmptyBody, h |-> 0,
               hmax |-> NoHMax, pre |-> EmptyAcc, n |-> 0, warnings |-> {}]

\* The end of a forward HandleValidatedBlock that has returned r for the
\* body b over the heights h..hTop
InterpApplied(r, b, h, hTop, hMax) ==
    InterpReturn(IF r.ok
                 THEN InterpAdvance([Proc EXCEPT !.acc = r.acc], h, hTop, b,
                                    r.ins)
                 ELSE [Proc EXCEPT !.acc = r.acc],
                 InterpCall("HandleValidatedBlock", r, Bodies[b], h, hMax,
                            acc, {}))

\* HandleValidatedBlock(r, body, h, true, true, NULL) at the next height
InterpApply(b) ==
    /\ ~crashed
    /\ cursor.height < MaxHeight
    /\ InterpApplied(
           HandleValidatedBlock(acc, Bodies[b], HeightAdd(cursor.height, 1),
                                TRUE, TRUE, NoHMax),
           b, HeightAdd(cursor.height, 1), HeightAdd(cursor.height, 1), NoHMax)

\* HandleValidatedBlock(r, body, h, true, false, &hMax) at the next height
InterpApplyMacro(b, hMax) ==
    /\ ~crashed
    /\ cursor.height < MaxHeight
    /\ hMax \in HeightAdd(cursor.height, 1)..MaxHeight
    /\ InterpApplied(
           HandleValidatedBlock(acc, Bodies[b], HeightAdd(cursor.height, 1),
                                TRUE, FALSE, hMax),
           b, HeightAdd(cursor.height, 1), hMax, hMax)

\* The end of a GoForward that has left the processor p
InterpWentForward(p, b, row) ==
    InterpReturn(
        p,
        InterpCall("HandleBlock",
                   [ok |-> p.ok,
                    ins |-> IF p.ok
                            THEN RollbackExport(p.states[row].rollback,
                                                Bodies[b].ins).ins
                            ELSE Bodies[b].ins,
                    n |-> 0],
                   Bodies[b], row, NoHMax, acc, p.ev.warnings))

\* GoForward(row) for the next row of the main chain, with the body b
InterpGoForward(b) ==
    /\ ~crashed
    /\ cursor.height < MaxHeight
    /\ InterpWentForward(
           GoForward([Proc EXCEPT !.states =
                         DbSet(DbSet(DbSet(@, HeightAdd(cursor.height, 1),
                                           "body", b),
                                     HeightAdd(cursor.height, 1),
                                     "functional", TRUE),
                               HeightAdd(cursor.height, 1), "peer", 2)],
                     HeightAdd(cursor.height, 1)),
           b, HeightAdd(cursor.height, 1))

\* The end of a reverse HandleValidatedBlock that has returned r
InterpUnapplied(r) ==
    InterpReturn(IF r.ok
                 THEN InterpRetreat([Proc EXCEPT !.acc = r.acc], call.h)
                 ELSE [Proc EXCEPT !.acc = r.acc, !.corrupted = r.corrupted],
                 [op |-> "Unapply", ok |-> r.ok, body |-> EmptyBody,
                  h |-> 0, hmax |-> NoHMax, pre |-> call.pre, n |-> 0,
                  warnings |-> {}])

\* HandleValidatedBlock(r, body, h, false, false, pHMax) for the block that
\* the last call applied
InterpUnapply ==
    /\ ~crashed
    /\ call.op \in {"HandleValidatedBlock", "HandleBlock"}
    /\ call.ok
    /\ InterpUnapplied(HandleValidatedBlock(acc, call.body, call.h, FALSE,
                                            FALSE, call.hmax))

(***************************************************************************)
(* Block templating.  The mempool and the key derivation facility belong   *)
(* to the caller (BlockContext): a mempool element is [tx, fee, feeHi,     *)
(* size, hmin, hmax], the fee in its low and high part, the size that the  *)
(* mempool has recorded and the height range of the kernels of tx.  The    *)
(* body under construction is g.res; g is [acc, res, fees, size, offset,   *)
(* ok], ok = FALSE once GenerateNewBlock(bc, res, h) has returned 0.       *)
(***************************************************************************)

\* m_nSizeUtxoComission: the serialized size of the output of the fees
SizeUtxoComission == 1

\* Amount is unsigned: the fees wrap
FeeWrap == 2^2

\* The outputs that Output::Create derives from the keys of bc.m_Kdf, and
\* the blinding factors of the three derived keys
CoinbaseOutput == [c |-> 3, coinbase |-> TRUE, m |-> 0]
ComissionOutput == [c |-> 4, coinbase |-> FALSE, m |-> 0]
SkCoinbase == 1
SkKernel == 2
SkComission == 1

\* The kernel ids that the key of the kernel of a template can hash to: one
\* that a block of a peer carries as well, and one of this node alone
TemplateKernels == {3, 4}

\* bc.m_TxPool.m_setProfit, in the order of the profit (fee descending, then
\* size ascending)
PoolTxs ==
    << [tx |-> [EmptyBody EXCEPT
                   !.outs = << [c |-> 1, coinbase |-> FALSE, m |-> 0] >>,
                   !.kout = << 1 >>, !.offset = 1],
        fee |-> 0, feeHi |-> TRUE, size |-> 2,
        hmin |-> 0, hmax |-> HeightMax],
       [tx |-> [EmptyBody EXCEPT
                   !.ins = << [c |-> 2, m |-> 0] >>,
                   !.outs = << [c |-> 2, coinbase |-> FALSE, m |-> 0] >>,
                   !.kin = << 2 >>, !.kout = << 2 >>, !.offset = 4],
        fee |-> 3, feeHi |-> FALSE, size |-> 4,
        hmin |-> 0, hmax |-> HeightMax],
       [tx |-> [EmptyBody EXCEPT
                   !.outs = [i \in 1..5 |->
                                [c |-> 1 + (i % 2), coinbase |-> FALSE,
                                 m |-> 0]],
                   !.kout = << 1 >>, !.offset = 2],
        fee |-> 3, feeHi |-> FALSE, size |-> 6,
        hmin |-> 0, hmax |-> HeightMax],
       [tx |-> [EmptyBody EXCEPT
                   !.outs = << [c |-> 2, coinbase |-> FALSE, m |-> 0] >>,
                   !.kout = << 2 >>, !.offset = 3],
        fee |-> 1, feeHi |-> FALSE, size |-> 2,
        hmin |-> 0, hmax |-> HeightMax],
       [tx |-> [EmptyBody EXCEPT
                   !.kin = << 2 >>, !.kout = << 3 >>, !.offset = 1],
        fee |-> 1, feeHi |-> FALSE, size |-> 2,
        hmin |-> HeightGenesis + 1, hmax |-> HeightMax],
       [tx |-> [EmptyBody EXCEPT
                   !.ins = << [c |-> 1, m |-> 0] >>, !.offset = 2],
        fee |-> 0, feeHi |-> FALSE, size |-> 1,
        hmin |-> 0, hmax |-> HeightMax] >>

\* The greatest number of elements of a mempool
MaxPool == 2

\* The mempools: the elements, by their place in the order of the profit
Pools == {S \in SUBSET DOMAIN PoolTxs : Cardinality(S) <= MaxPool}

ProfitSet(S) ==
    SelectSeq([i \in DOMAIN PoolTxs |-> i], LAMBDA i : i \in S)

\* The bodies that a caller hands in to be extended: a treasury, a body that
\* Block::Body::IsValid rejects, a body whose input is not there, a body
\* that is too large with the coinbase, and a body that spends two of a
\* commitment and creates two of it
SeedBodies ==
    << [EmptyBody EXCEPT
           !.outs = << [c |-> 1, coinbase |-> FALSE, m |-> 0] >>,
           !.kout = << 3 >>, !.subsidy = 2, !.closing = TRUE, !.offset = 1],
       [EmptyBody EXCEPT
           !.outs = << [c |-> 2, coinbase |-> FALSE, m |-> 0] >>,
           !.valid = FALSE],
       [EmptyBody EXCEPT
           !.ins = << [c |-> 4, m |-> 0] >>, !.kout = << 1 >>],
       [EmptyBody EXCEPT
           !.outs = [i \in 1..5 |->
                        [c |-> 1 + (i % 2), coinbase |-> FALSE, m |-> 0]],
           !.kout = << 1 >>],
       [EmptyBody EXCEPT
           !.ins = << [c |-> 2, m |-> 0], [c |-> 2, m |-> 0] >>,
           !.outs = << [c |-> 2, coinbase |-> FALSE, m |-> 0],
                       [c |-> 2, coinbase |-> FALSE, m |-> 0] >>] >>

\* GenerateNewBlock(bc): the body that is extended when none is handed in
InitiallyEmpty == [EmptyBody EXCEPT !.closing = TRUE]

\* ValidateTxWrtHeight(tx, h), for the mempool element x
ValidateTxWrtHeight(x, h) ==
    \A i \in DOMAIN x.tx.kout : h >= x.hmin /\ h <= x.hmax

\* Block::Body::Writer(res).Dump(tx.get_Reader()); ins are the inputs of tx
\* with the maturities that HandleValidatedTx has written into them
Dump(res, tx, ins) ==
    [res EXCEPT !.ins = @ \o ins, !.outs = @ \o tx.outs,
                !.kin = @ \o tx.kin, !.kout = @ \o tx.kout]

\* nSizeNext for the mempool element x
SizeNext(g, x) ==
    g.size + x.size
        + (IF g.fees = 0 /\ (g.fees + x.fee) % FeeWrap # 0
           THEN SizeUtxoComission ELSE 0)

RECURSIVE PoolLoop(_, _, _, _)

\* The mempool element x after HandleValidatedTx(tx, h, true, true) has
\* returned r: it is merged into the body, or it is deleted from the mempool
PoolMerge(g, pool, i, h, x, r) ==
    PoolLoop(IF r.ok
             THEN [g EXCEPT !.acc = r.acc,
                            !.res = Dump(@, x.tx, r.ins),
                            !.fees = (g.fees + x.fee) % FeeWrap,
                            !.size = SizeNext(g, x),
                            !.offset = (@ + x.tx.offset) % ScalarOrder]
             ELSE [g EXCEPT !.acc = r.acc],
             pool, i + 1, h)

\* One round of the loop over the mempool, for its element x
PoolElement(g, pool, i, h, x) ==
    IF \/ x.feeHi
       \/ (g.fees + x.fee) % FeeWrap < g.fees
       \/ SizeNext(g, x) > MaxBodySize
       \/ ~ValidateTxWrtHeight(x, h)
    THEN PoolLoop(g, pool, i + 1, h)
    ELSE PoolMerge(g, pool, i, h, x,
                   HandleValidatedTx(g.acc, x.tx, h, TRUE, TRUE, NoHMax))

\* The loop over bc.m_TxPool.m_setProfit, from its i-th element
PoolLoop(g, pool, i, h) ==
    IF i > Len(pool)
    THEN g
    ELSE PoolElement(g, pool, i, h, PoolTxs[pool[i]])

\* GenerateNewBlock(bc, res, h) from "Finalize block construction": the
\* definition of the header is computed between two ToggleSubsidyOpened
GenerateHeader(g) ==
    [g EXCEPT !.acc = IF g.res.closing
                      THEN ToggleSubsidyOpened(ToggleSubsidyOpened(@))
                      ELSE @,
              !.res = [@ EXCEPT !.offset = g.offset]]

\* The output of the fees, after HandleBlockElement has returned r for it
GenerateComission(g, r) ==
    IF ~r.ok
    THEN [g EXCEPT !.ok = FALSE]
    ELSE GenerateHeader(
             [g EXCEPT !.acc = r.acc,
                       !.res = [@ EXCEPT !.outs = Append(@, ComissionOutput)],
                       !.offset = (@ + ScalarOrder - SkComission)
                                      % ScalarOrder])

\* GenerateNewBlock(bc, res, h) after the loop over the mempool
GenerateFees(g, h) ==
    IF g.fees = 0
    THEN GenerateHeader(g)
    ELSE GenerateComission(
             g, HandleBlockElementOutput(g.acc, ComissionOutput, h, NoHMax,
                                         TRUE))

\* GenerateNewBlock(bc, res, h) after HandleBlockElement has returned r for
\* the kernel krn of the coinbase
GenerateSized(g, pool, h, krn, r) ==
    IF ~r.ok
    THEN [g EXCEPT !.ok = FALSE]
    ELSE IF BodySize(g.res) + 1 > MaxBodySize
    THEN [g EXCEPT !.acc = r.acc,
                   !.res = [@ EXCEPT !.kout = Append(@, krn)],
                   !.ok = FALSE]
    ELSE GenerateFees(
             PoolLoop([g EXCEPT !.acc = r.acc,
                                !.res = [@ EXCEPT !.kout = Append(@, krn)],
                                !.size = BodySize(g.res) + 1,
                                !.offset = (@ + ScalarOrder - SkKernel)
                                               % ScalarOrder],
                      pool, 1, h),
             h)

\* GenerateNewBlock(bc, res, h) after HandleBlockElement has returned r for
\* the output of the coinbase
GenerateKernel(g, pool, h, krn, r) ==
    IF ~r.ok
    THEN [g EXCEPT !.ok = FALSE]
    ELSE GenerateSized(
             [g EXCEPT !.acc = r.acc,
                       !.res = [@ EXCEPT !.outs = Append(@, CoinbaseOutput)],
                       !.offset = (@ + ScalarOrder - SkCoinbase)
                                      % ScalarOrder],
             pool, h, krn, HandleBlockElementKernel(r.acc, krn, TRUE, FALSE))

\* size_t GenerateNewBlock(bc, res, h), on the accumulators a
GenerateNewBlockBody(a, res, pool, h, krn) ==
    GenerateKernel(
        [acc |-> a,
         res |-> [res EXCEPT
                     !.subsidy = (@ + CoinbaseEmission) % AmountWrap,
                     !.closing = @ /\ a.open],
         fees |-> 0, size |-> 0, offset |-> res.offset, ok |-> TRUE],
        pool, h, krn,
        HandleBlockElementOutput(a, CoinbaseOutput, h, NoHMax, TRUE))

\* bool GenerateNewBlock(bc, res, bInitiallyEmpty) after the body was
\* generated: verify(HandleValidatedTx(res.get_Reader(), h, false, false))
\* has returned u
GenerateUndone(g, u) ==
    [ok |-> g.ok /\ ~u.corrupted, acc |-> u.acc, corrupted |-> u.corrupted,
     res |-> g.res]

\* bool GenerateNewBlock(bc, res, bInitiallyEmpty) after the body was
\* generated
GenerateUndo(g, h) ==
    GenerateUndone(g, HandleValidatedTx(g.acc, g.res, h, FALSE, FALSE, NoHMax))

\* bool GenerateNewBlock(bc, res, bInitiallyEmpty) after HandleValidatedTx
\* has returned r for the body that was handed in
GenerateSeeded(r, seed, pool, h, krn) ==
    IF ~r.ok
    THEN [ok |-> FALSE, acc |-> r.acc, corrupted |-> FALSE, res |-> seed]
    ELSE GenerateUndo(
             GenerateNewBlockBody(r.acc, [seed EXCEPT !.ins = r.ins], pool, h,
                                  krn),
             h)

\* bool GenerateNewBlock(bc, res, bInitiallyEmpty)
GenerateNewBlock(p, bInitiallyEmpty, res, pool, h, krn) ==
    IF ~bInitiallyEmpty /\ ~VerifyBlock(p, res)
    THEN [ok |-> FALSE, acc |-> p.acc, corrupted |-> FALSE, res |-> res]
    ELSE GenerateSeeded(
             IF bInitiallyEmpty
             THEN [ok |-> TRUE, acc |-> p.acc, ins |-> res.ins]
             ELSE HandleValidatedTx(p.acc, res, h, TRUE, TRUE, NoHMax),
             res, pool, h, krn)

\* The end of a GenerateNewBlock that has returned u; a call that leaves the
\* accumulators as they were leaves no record
InterpGenerated(u) ==
    InterpReturn([Proc EXCEPT !.acc = u.acc, !.corrupted = u.corrupted],
                 IF u.acc = acc /\ ~u.corrupted
                 THEN call
                 ELSE [op |-> "GenerateNewBlock", ok |-> u.ok,
                       body |-> EmptyBody, h |-> 0, hmax |-> NoHMax,
                       pre |-> acc, n |-> 0, warnings |-> {}])

\* The calls of GenerateNewBlock: bc.m_TxPool, the kernel that bc.m_Kdf
\* derives, and the body that is handed in (0: GenerateNewBlock(bc))
GenerateInputs ==
    [seed : {0}, pool : Pools, krn : TemplateKernels]
        \cup [seed : DOMAIN SeedBodies, pool : {{}, {4, 5}},
              krn : TemplateKernels]

\* GenerateNewBlock(bc) and GenerateNewBlock(bc, res) on top of the cursor
InterpGenerate(in) ==
    /\ ~crashed
    /\ InterpGenerated(
           GenerateNewBlock(Proc, in.seed = 0,
                            IF in.seed = 0 THEN InitiallyEmpty
                            ELSE SeedBodies[in.seed],
                            ProfitSet(in.pool), HeightAdd(cursor.height, 1),
                            in.krn))
InterpNext ==
    \/ \E b \in BodyIds : InterpApply(b)
    \/ \E b \in MacroBodyIds, hMax \in 1..MaxHeight : InterpApplyMacro(b, hMax)
    \/ \E b \in BodyIds : InterpGoForward(b)
    \/ InterpUnapply
    \/ \E in \in GenerateInputs : InterpGenerate(in)

SpecInterp == InterpInit /\ [][InterpNext]_vars

(***************************************************************************)
(* Block templating on top of applied blocks.  Here every                  *)
(* GenerateNewBlock leaves the record [op, ok, body, hdr, now, pre] in     *)
(* call: what it has returned, the body and the header that it has filled  *)
(* in, the clock, and the accumulators before the call.                    *)
(***************************************************************************)

\* A faulty header: the timestamp is the clock
GenerateNewBlockHdr_Clock(p, h, now) ==
    [prev |-> p.cursor.row,
     height |-> h,
     difficulty |-> p.cursor.diffNext,
     chainwork |-> DifficultyInc(p.cursor.diffNext, CursorChainWork(p.cursor)),
     timestamp |-> now]

\* bc.m_Hdr as GenerateNewBlock(bc, res, h) fills it in (m_Definition apart)
GenerateNewBlockHdr(p, h, now) ==
    [prev |-> p.cursor.row,
     height |-> h,
     difficulty |-> p.cursor.diffNext,
     chainwork |-> DifficultyInc(p.cursor.diffNext, CursorChainWork(p.cursor)),
     timestamp |-> Max({now, get_MovingMedian(p) + 1})]

\* The blocks that are applied before a block is generated
GenerateOnBodies == {1, 2, 3, 5, 8, 12}

\* The end of a GenerateNewBlock that has returned u at the clock now
InterpGeneratedAt(u, now) ==
    InterpReturn([Proc EXCEPT !.acc = u.acc, !.corrupted = u.corrupted],
                 [op |-> "GenerateNewBlock", ok |-> u.ok, body |-> u.res,
                  hdr |-> GenerateNewBlockHdr(Proc, HeightAdd(cursor.height, 1),
                                              now),
                  now |-> now, pre |-> acc])

\* GenerateNewBlock(bc) and GenerateNewBlock(bc, res) on top of the cursor,
\* at the clock now
InterpGenerateAt(in, now) ==
    /\ ~crashed
    /\ InterpGeneratedAt(
           GenerateNewBlock(Proc, in.seed = 0,
                            IF in.seed = 0 THEN InitiallyEmpty
                            ELSE SeedBodies[in.seed],
                            ProfitSet(in.pool), HeightAdd(cursor.height, 1),
                            in.krn),
           now)

GenerateNext ==
    \/ \E b \in GenerateOnBodies : InterpApply(b)
    \/ \E in \in GenerateInputs, now \in Clocks : InterpGenerateAt(in, now)

SpecGenerate == InterpInit /\ [][GenerateNext]_vars

(***************************************************************************)
(* ValidateTxContext on the accumulators that blocks have left.  The call  *)
(* leaves the transaction x (a mempool element: the transaction and the    *)
(* height range of its output kernels) and what it has returned.           *)
(***************************************************************************)

\* ValidateTxContextKernels(vec, bInp) from the element i on; prev is the id
\* of the element before it (phv[1 & (i - 1)], Zero at the start)
RECURSIVE ValidateTxContextKernelsFrom(_, _, _, _, _)
ValidateTxContextKernelsFrom(kernels, vec, i, prev, bInp) ==
    IF i > Len(vec) THEN TRUE
    ELSE IF vec[i] = prev THEN FALSE
    ELSE IF bInp # (vec[i] \in kernels) THEN FALSE
    ELSE ValidateTxContextKernelsFrom(kernels, vec, i + 1, vec[i], bInp)

\* A faulty ValidateTxContextKernels: a kernel that is in the set passes
ValidateTxContextKernels_Any(kernels, vec, bInp) == TRUE

\* bool ValidateTxContextKernels(vec, bInp)
ValidateTxContextKernels(kernels, vec, bInp) ==
    ValidateTxContextKernelsFrom(kernels, vec, 1, ZeroHash, bInp)

\* m_Utxos.Traverse(t) over [(c, m), (c, hi)] with the traveler of
\* ValidateTxContext, whose m_Count is n: TRUE when the traversal has come to
\* its end, FALSE when OnLeaf has stopped it
RECURSIVE UtxoTraverseCount(_, _, _, _, _)
UtxoTraverseCount(utxos, c, m, hi, n) ==
    IF m > hi THEN TRUE
    ELSE IF << c, m >> \notin DOMAIN utxos
    THEN UtxoTraverseCount(utxos, c, m + 1, hi, n)
    ELSE IF n <= utxos[<< c, m >>] THEN FALSE
    ELSE UtxoTraverseCount(utxos, c, m + 1, hi, n - utxos[<< c, m >>])

\* for (; i + 1 < size; i++, t.m_Count++) if (next commitment != v) break;
\* the index at which the loop leaves i
RECURSIVE InputGroupEnd(_, _, _)
InputGroupEnd(ins, c, i) ==
    IF i + 1 <= Len(ins) /\ ins[i + 1].c = c
    THEN InputGroupEnd(ins, c, i + 1)
    ELSE i

\* The loop over the inputs of ValidateTxContext from the input i on
RECURSIVE ValidateTxContextInputs(_, _, _, _)
ValidateTxContextInputs(utxos, ins, i, h) ==
    IF i > Len(ins) THEN TRUE
    ELSE LET j == InputGroupEnd(ins, ins[i].c, i)
         IN  IF UtxoTraverseCount(utxos, ins[i].c, 0, h, j - i + 1)
             THEN FALSE
             ELSE ValidateTxContextInputs(utxos, ins, j + 1, h)

\* bool ValidateTxContext(tx)
ValidateTxContext(p, x) ==
    LET h == HeightAdd(p.cursor.height, 1)
    IN  /\ ValidateTxWrtHeight(x, h)
        /\ ValidateTxContextInputs(p.acc.utxos, x.tx.ins, 1, h)
        /\ ValidateTxContextKernels(p.acc.kernels, x.tx.kout, FALSE)
        /\ ValidateTxContextKernels(p.acc.kernels, x.tx.kin, FALSE)

\* The transactions that are validated: inputs of one and of two
\* commitments, equal ones next to each other and apart; kernels that blocks
\* carry and one that no block carries; a height range that holds every
\* height and one that ends at the first
ValidateIns ==
    {<< >>, << 1 >>, << 2 >>, << 2, 2 >>, << 1, 2 >>, << 2, 1, 2 >>,
     << 2, 2, 2 >>}
ValidateKernelsIn == {<< >>, << 2 >>, << 4 >>}
ValidateKernelsOut == {<< >>, << 1 >>, << 4 >>, << 4, 4 >>}
ValidateTxs ==
    {[tx |-> [EmptyBody EXCEPT
                 !.ins = [i \in DOMAIN ins |-> [c |-> ins[i], m |-> 0]],
                 !.kin = kin, !.kout = kout],
      hmin |-> 0, hmax |-> hmax] :
        ins \in ValidateIns, kin \in ValidateKernelsIn,
        kout \in ValidateKernelsOut, hmax \in {HeightGenesis, HeightMax}}

\* ValidateTxContext(tx) on top of the cursor
InterpValidate(x) ==
    /\ ~crashed
    /\ InterpReturn(Proc,
                    [op |-> "ValidateTxContext",
                     ok |-> ValidateTxContext(Proc, x), x |-> x])

\* The blocks that are applied before a transaction is validated
ValidateOnBodies == {1, 2, 5, 12}

ValidateNext ==
    \/ \E b \in ValidateOnBodies : InterpApply(b)
    \/ \E x \in ValidateTxs : InterpValidate(x)

SpecValidate == InterpInit /\ [][ValidateNext]_vars

\* The accumulators in the course of a reverse HandleValidatedTx of the
\* transaction tx at height h: after each of its inputs was handled
ReverseInputStates(a, tx, h, pHMax) ==
    {RollbackLoop(a, Tagged("in", SubSeq(tx.ins, 1, i)), 1, h, pHMax) :
        i \in 0..Len(tx.ins)}

(***************************************************************************)
(* Properties of the reorg engine and of the ingress                       *)
(***************************************************************************)

\* The accumulators and m_Extra without the record of uninitialized reads
AccView(a) ==
    [utxos |-> a.utxos, kernels |-> a.kernels, open |-> a.open,
     subsidy |-> a.subsidy, offset |-> a.offset]

\* The height of the highest Active row, HeightGenesis - 1 when there is none
ActiveTop(sts) ==
    IF ActiveRows(sts) = {} THEN HeightGenesis - 1
    ELSE Max({Headers[r].height : r \in ActiveRows(sts)})

\* The bodies of the Active rows up to height h, applied in order to the
\* empty accumulators
RECURSIVE ApplyActive(_, _)
ApplyActive(sts, h) ==
    IF h < HeightGenesis THEN EmptyAcc
    ELSE HandleValidatedBlock(ApplyActive(sts, h - 1),
                              Bodies[sts[FindActiveAtStrict(sts, h)].body],
                              h, TRUE, TRUE, NoHMax).acc

\* Every Active row holds its body (no state came from a macroblock)
ActiveBodiesStored == \A r \in ActiveRows(states) : states[r].body # 0

FunctionalFlagTips(sts) == {r \in Tips(sts) : sts[r].functional}

C5_CursorChainWorkIsMaximal ==
    ~crashed =>
        \A r \in DOMAIN states :
            (/\ Reachable(states, r)
             /\ \A c \in Children(states, r) : ~Reachable(states, c))
                => CursorChainWork(cursor) >= DbChainWork(r)

\* Two Reachable tips at the end of a call, the cursor on one of them
C5_Witness_TwoReachableTips ==
    /\ ~crashed
    /\ cursor.row # 0
    /\ Cardinality(FunctionalTips(states)) >= 2
    /\ call.ret = "Accepted"

\* C6: the Active rows are a parent-linked path with one row per height from
\* genesis to the cursor, whose last row is the cursor (none when the cursor
\* is null); GoForward adds exactly the row it applied, Rollback removes
\* exactly the row of the cursor.
C6_ActiveIsPathToCursor ==
    ~crashed =>
        LET A == ActiveRows(states)
        IN  /\ (cursor.row = 0) <=> (A = {})
            /\ params.Cursor = cursor.row
            /\ cursor.row # 0 =>
                   /\ cursor.row \in A
                   /\ Headers[cursor.row].height = cursor.height
            /\ \A h \in HeightGenesis..cursor.height :
                   Cardinality({r \in A : Headers[r].height = h}) = 1
            /\ \A r \in A :
                   /\ Headers[r].height \in HeightGenesis..cursor.height
                   /\ IF Headers[r].height = HeightGenesis
                      THEN Headers[r].prev = 0
                      ELSE Headers[r].prev \in A
            /\ \A e \in call.ev.applied :
                   /\ e.row \notin e.active
                   /\ e.activeNext = e.active \cup {e.row}
            /\ \A e \in call.ev.rolledBack :
                   /\ e.row \in e.active
                   /\ \A x \in e.active : Headers[x].height <= e.height
                   /\ Headers[e.row].height = e.height
                   /\ e.activeNext = e.active \ {e.row}

\* A call that rolled back and went forward and ends on a path of two rows
C6_Witness_PathAfterReorg ==
    /\ ~crashed
    /\ call.ev.rolledBack # {}
    /\ call.ev.applied # {}
    /\ Cardinality(ActiveRows(states)) >= 2

\* C7 as stated: TryGoUp never rolls back an Active state whose height is
\* below m_LoHorizon.
C7_Stated_NoRollbackBelowLoHorizon ==
    \A e \in call.ev.rolledBack : e.height >= e.lo

\* C8 as stated: m_LoHorizon <= the height of the cursor in every state,
\* the states that TryGoUp visits while it rolls back and replays included,
\* and the assertion of first-time HandleBlock never fails.
C8_Stated_LoHorizonAtMostCursorHeight ==
    /\ cursor.lo <= cursor.height
    /\ \A v \in call.ev.visited : v.lo <= v.height
    /\ 449 \notin call.ev.asserts

\* The peer that delivered the body of row r, seen from before the call
DeliveringPeer(r) ==
    IF call'.op = "OnBlock" /\ call'.id = r THEN call'.peer ELSE states[r].peer

C11_JournalIffAppliedForward ==
    [][~crashed' =>
          \A r \in DOMAIN states' :
              (states'[r].rollback.size # 0)
                  <=> \/ r \in DOMAIN states /\ states[r].rollback.size # 0
                      \/ \E a \in call'.ev.applied : a.row = r]_vars

\* After a reorg that rolled states back, a Functional state that is not
\* Active any more still has the journal of its apply
C11_Witness_JournalOfUnappliedState ==
    /\ ~crashed
    /\ call.ev.rolledBack # {}
    /\ \E r \in DOMAIN states :
           /\ states[r].functional
           /\ ~states[r].active
           /\ states[r].rollback.size # 0

\* C12 as stated: every Active state has a rollback journal in the store,
\* and the journal has one maturity per input of the state's block, or one
\* byte when the block has no inputs (the size is compared where the store
\* still has the block).
C12_Stated_ActiveStateHasJournal ==
    \A r \in ActiveRows(states) :
        /\ states[r].rollback.size # 0
        /\ states[r].body # 0 =>
               states[r].rollback.size
                   = RollbackImport(Bodies[states[r].body].ins).size

\* The store once OnBlock has put the block into the row id
BlockStored(id, block, peer) ==
    [states EXCEPT ![id] = [@ EXCEPT !.body = block, !.functional = TRUE,
                                     !.peer = peer]]

\* C14: in every reachable state, for every header id, body and peer, OnBlock
\* returns Invalid when the body is larger than MaxBodySize, otherwise
\* Rejected when the header is not in the store or its state is Functional,
\* otherwise Unreachable when the height is below the stored LoHorizon,
\* otherwise Accepted.  A call that does not return Accepted leaves the store,
\* the cursor and the accumulators as they are.  A call that returns Accepted
\* has the body, the Functional flag and the peer in the row when it reaches
\* the test of Reachable; it runs TryGoUp exactly when the row is Reachable
\* then, and when it is not, the row is all that has changed.  When TryGoUp
\* has run and not thrown, the row still holds the body, the flag and the
\* peer unless the body has failed in GoForward.
C14_OnBlockContract ==
    ~crashed =>
        \A id \in HdrIds, peer \in BodyPeers :
            \A block \in SentBodies(id) \cup {LargeBody} :
                LET ret == OnBlockStatus(Proc, id, block)
                    q == OnBlockEnd(Proc, id, block, peer, ret)
                IN  /\ ret = IF BodySize(Bodies[block]) > MaxBodySize
                             THEN "Invalid"
                             ELSE IF \/ id \notin DOMAIN states
                                     \/ states[id].functional
                             THEN "Rejected"
                             ELSE IF Headers[id].height < params.LoHorizon
                             THEN "Unreachable"
                             ELSE "Accepted"
                    /\ ret # "Accepted" =>
                           /\ q.states = states
                           /\ q.params = params
                           /\ q.cursor = cursor
                           /\ q.acc = acc
                           /\ ~q.corrupted
                           /\ q.ev = NoEvents
                    /\ ret = "Accepted" =>
                           /\ (q.ev.tryGoUp > 0)
                                  <=> Reachable(BlockStored(id, block, peer), id)
                           /\ q.ev.tryGoUp = 0 =>
                                  /\ q.states = BlockStored(id, block, peer)
                                  /\ q.params = params
                                  /\ q.cursor = cursor
                                  /\ q.acc = acc
                                  /\ ~q.corrupted
                           /\ (q.ev.tryGoUp > 0 /\ ~q.corrupted
                                   /\ id \notin q.ev.failed) =>
                                  q.states[id] = [BlockStored(id, block, peer)[id]
                                                     EXCEPT !.active = q.states[id].active,
                                                            !.rollback = q.states[id].rollback]

\* An OnBlock has returned Accepted for a state that is not Reachable, and
\* has left a state in which a body is Unreachable (its header is known, not
\* Functional and below LoHorizon), another is Rejected for an unknown header
\* and another for a Functional state
C14_Witness_AcceptedNotReachable ==
    /\ ~crashed
    /\ call.op = "OnBlock"
    /\ call.ret = "Accepted"
    /\ call.ev.tryGoUp = 0
    /\ ~Reachable(states, call.id)
    /\ states[call.id].body = call.body
    /\ \E id \in HdrIds :
           OnBlockStatus(Proc, id, HonestBody(Headers[id].height))
               = "Unreachable"
    /\ \E id \in HdrIds : id \notin DOMAIN states
    /\ \E id \in HdrIds : id \in DOMAIN states /\ states[id].functional

\* C15: in every reachable state, for every header, peer, clock and verdict
\* of the approval hook, OnState returns Invalid when the header is insane,
\* has no valid PoW, has a timestamp greater than the clock plus
\* TimestampAheadThreshold_s (not when it is equal to it) or is not approved;
\* otherwise Unreachable when its height is below the stored LoHorizon;
\* otherwise Rejected when the header is in the store; otherwise Accepted.
\* An Accepted call adds the row of the header, with the peer and nothing
\* else, to the store and leaves the other rows; any other call leaves the
\* store.  No call changes the parameters, the cursor or the accumulators.
C15_OnStateContract ==
    ~crashed =>
        \A id \in SentHdrIds, peer \in HeaderPeers, now \in Clocks,
           approve \in BOOLEAN :
            LET s == Headers[id]
                ret == OnStateInternal(Proc, s, id, now, approve)
                q == OnStateEnd(Proc, id, peer, ret)
            IN  /\ ret = IF \/ ~s.sane
                            \/ ~s.pow
                            \/ s.timestamp > now + TimestampAheadThreshold_s
                            \/ ~approve
                         THEN "Invalid"
                         ELSE IF s.height < params.LoHorizon
                         THEN "Unreachable"
                         ELSE IF id \in DOMAIN states THEN "Rejected"
                         ELSE "Accepted"
                /\ q.params = params
                /\ q.cursor = cursor
                /\ q.acc = acc
                /\ ~q.corrupted
                /\ ret # "Accepted" => q.states = states
                /\ ret = "Accepted" =>
                       /\ DOMAIN q.states = DOMAIN states \cup {id}
                       /\ q.states[id] = [NewRow EXCEPT !.peer = peer]
                       /\ \A r \in DOMAIN states : q.states[r] = states[r]

\* An OnState has returned Accepted and has left a state in which a header
\* whose timestamp is the clock plus the threshold is looked up in the store
\* (and is Rejected), a header one second further ahead is Invalid, and a
\* header is Unreachable
C15_Witness_AcceptedAndThreshold ==
    /\ ~crashed
    /\ call.op = "OnState"
    /\ call.ret = "Accepted"
    /\ states[call.id] = [NewRow EXCEPT !.peer = call.peer]
    /\ \E id \in SentHdrIds, now \in Clocks :
           /\ Headers[id].timestamp = now + TimestampAheadThreshold_s
           /\ OnStateInternal(Proc, Headers[id], id, now, TRUE) = "Rejected"
    /\ \E id \in SentHdrIds, now \in Clocks :
           /\ Headers[id].timestamp = now + TimestampAheadThreshold_s + 1
           /\ OnStateInternal(Proc, Headers[id], id, now, TRUE) = "Invalid"
    /\ \E id \in SentHdrIds, now \in Clocks :
           OnStateInternal(Proc, Headers[id], id, now, TRUE) = "Unreachable"

(***************************************************************************)
(* Properties of pruning                                                   *)
(***************************************************************************)

\* PruneOld has run in the last call, at its end
Pruned == ~crashed /\ call.ev.pruned > 0

\* C16 as stated: after PruneOld has run, no state at a height up to
\* FossilHeight has a body in the store, and every state at such a height
\* that is not Active is not Functional.
C16_Stated_NoBodyUpToFossilHeight ==
    Pruned =>
        \A r \in DOMAIN states :
            Headers[r].height <= params.FossilHeight =>
                /\ states[r].body = 0
                /\ ~states[r].active => ~states[r].functional

\* PruneOld looks for fossils when the cursor is at c
FossilsDue(c) ==
    c.height > HeightSub(HeightAdd(horizon.Schwarzschild, HeightGenesis), 1)

\* min(cursor.height - Schwarzschild, lo_horizon) for the cursor c
FossilBound(c) == Min({HeightSub(c.height, horizon.Schwarzschild), c.lo})

\* C17 as stated: FossilHeight never decreases, and a call in which PruneOld
\* has looked for fossils leaves it equal to the bound
\* min(cursor.height - Schwarzschild, lo_horizon) when the bound is greater
\* than it was before, and never greater than the bound.
C17_Stated_FossilHeightReachesBound ==
    [][/\ params'.FossilHeight >= params.FossilHeight
       /\ (~crashed' /\ call'.ev.pruned > 0 /\ FossilsDue(cursor')) =>
              /\ FossilBound(cursor') > params.FossilHeight =>
                     params'.FossilHeight = FossilBound(cursor')
              /\ params'.FossilHeight <= FossilBound(cursor')]_vars

\* C17: FossilHeight never decreases.  A successful ImportMacroBlock sets it
\* to the height of the imported top, whatever the bound is.  From there, or
\* from its value before the call, a PruneOld that looks for fossils takes
\* it to one below the bound min(cursor.height - Schwarzschild, lo_horizon)
\* when that is greater; nothing else changes it.
C17_FossilHeightAdvance ==
    [][/\ params'.FossilHeight >= params.FossilHeight
       /\ ~crashed' =>
              LET prev == IF /\ call'.op = "ImportMacroBlock"
                             /\ call'.ret = "true"
                          THEN Headers[call'.id].height
                          ELSE params.FossilHeight
              IN  params'.FossilHeight =
                      IF /\ call'.ev.pruned > 0
                         /\ FossilsDue(cursor')
                         /\ FossilBound(cursor') - 1 > prev
                      THEN FossilBound(cursor') - 1
                      ELSE prev]_vars

\* An OnBlock has pruned fossils: FossilHeight has advanced, to the height
\* below the bound
C17_Witness_FossilsPruned ==
    /\ Pruned
    /\ call.op = "OnBlock"
    /\ FossilsDue(cursor)
    /\ params.FossilHeight >= HeightGenesis
    /\ params.FossilHeight = FossilBound(cursor) - 1
    /\ \A r \in DOMAIN states :
           Headers[r].height <= params.FossilHeight => states[r].body = 0

\* The row r is the row d or one of its ancestors in the store
RECURSIVE AncestorOrSelf(_, _, _)
AncestorOrSelf(sts, r, d) ==
    /\ d # 0
    /\ \/ d = r
       \/ AncestorOrSelf(sts, r, DbPrev(sts, d))

\* The rows of the store that lead to a row at height h or above
LeadingUpTo(sts, h) ==
    {r \in DOMAIN sts :
        \E d \in DOMAIN sts :
            Headers[d].height >= h /\ AncestorOrSelf(sts, r, d)}

Imported(q, m) ==
    /\ \A i \in DOMAIN m.hdrs :
           /\ m.hdrs[i] \in DOMAIN q.states
           /\ q.states[m.hdrs[i]].functional
           /\ q.states[m.hdrs[i]].active
           /\ q.states[m.hdrs[i]].body = 0
           /\ q.states[m.hdrs[i]].peer = 0
    /\ q.cursor.row \in DOMAIN q.states
    /\ q.states[q.cursor.row].active
    /\ q.params.Cursor = q.cursor.row
    /\ q.cursor.height = Headers[q.cursor.row].height
    /\ q.cursor.height >= Headers[MacroTop(m)].height
    /\ AncestorOrSelf(q.states, MacroTop(m), q.cursor.row)
    /\ q.cursor.lo = q.params.LoHorizon

\* C19 as stated: when ImportMacroBlock returns true, the imported states
\* are Functional and Active without body and peer, the cursor is on the
\* Active path at or above the imported top, and LoHorizon and FossilHeight
\* are the height of the imported top, so LoHorizon <= FossilHeight.
C19_Stated_HorizonsAtImportedTop ==
    ~crashed =>
        \A i \in DOMAIN MacroBlocks, now \in Clocks, approve \in BOOLEAN :
            LET m == MacroBlocks[i]
                q == ImportMacroBlockInternal(Proc, m, now, approve)
                e == ImportMacroBlockEnd(q)
            IN  (q.ok /\ ~q.corrupted /\ ~e.corrupted) =>
                    /\ Imported(e, m)
                    /\ e.params.LoHorizon = Headers[MacroTop(m)].height
                    /\ e.params.FossilHeight = Headers[MacroTop(m)].height
                    /\ e.params.LoHorizon <= e.params.FossilHeight

\* C19: when ImportMacroBlockInternal returns true, the imported states are
\* Functional and Active without body and peer, the cursor is the imported
\* top, and LoHorizon and FossilHeight are its height.  When ImportMacroBlock
\* then returns true, after its TryGoUp, the imported states are still so,
\* the cursor is on the Active path at or above the imported top, and
\* LoHorizon and FossilHeight are at least the height of the imported top.
C19_ImportPromotesAndSetsHorizons ==
    ~crashed =>
        \A i \in DOMAIN MacroBlocks, now \in Clocks, approve \in BOOLEAN :
            LET m == MacroBlocks[i]
                q == ImportMacroBlockInternal(Proc, m, now, approve)
                e == ImportMacroBlockEnd(q)
            IN  (q.ok /\ ~q.corrupted) =>
                    /\ Imported(q, m)
                    /\ q.cursor.row = MacroTop(m)
                    /\ q.params.LoHorizon = Headers[MacroTop(m)].height
                    /\ q.params.FossilHeight = Headers[MacroTop(m)].height
                    /\ ~e.corrupted =>
                           /\ Imported(e, m)
                           /\ e.params.LoHorizon
                                  >= Headers[MacroTop(m)].height
                           /\ e.params.FossilHeight
                                  >= Headers[MacroTop(m)].height

\* An ImportMacroBlock has returned true after its TryGoUp has applied a
\* block on top of the imported states: LoHorizon is above FossilHeight
C19_Witness_ImportThenForward ==
    /\ ~crashed
    /\ call.op = "ImportMacroBlock"
    /\ call.ret = "true"
    /\ call.ev.applied # {}
    /\ cursor.height > Headers[call.id].height
    /\ states[call.id].active
    /\ states[call.id].body = 0
    /\ params.FossilHeight = Headers[call.id].height
    /\ params.LoHorizon > params.FossilHeight

C2_Stated_UnapplyRestoresAccumulators ==
    call.op = "Unapply" =>
        /\ call.ok
        /\ ~crashed
        /\ AccView(acc) = AccView(call.pre)

\* C3: when a forward interpreter call (HandleValidatedBlock, and with it
\* HandleValidatedTx, or first-time HandleBlock) returns false, the UTXO
\* multiset, the kernel set, the subsidy-open flag, the subsidy total and the
\* offset are what they were before the call.
C3_Stated_FailedForwardCallLeavesAccumulators ==
    (/\ call.op \in {"HandleValidatedBlock", "HandleBlock"}
     /\ ~call.ok
     /\ ~crashed)
        => AccView(acc) = AccView(call.pre)

\* C10: between interpreter calls (after block apply, unapply, failed apply,
\* the apply of a macroblock and the generation of a block) the zero-hash
\* key is in the kernel set exactly when the subsidy-open flag is false.
C10_SentinelIffSubsidyClosed ==
    (ZeroHash \in acc.kernels) <=> ~acc.open

\* A block was unapplied on top of the block that closed the subsidy
C10_Witness_UnapplyAboveClosingBlock ==
    /\ call.op = "Unapply"
    /\ call.ok
    /\ ~acc.open
    /\ ZeroHash \in acc.kernels
    /\ cursor.height >= 1

\* C13 as stated: every leaf of the UTXO multiset has a count of at least 1
\* in every state between the calls of the interpreter, and the increment of
\* a reverse input never wraps: while the block that was applied last is
\* unapplied, no leaf gets the count 0 from the reverse pass over its inputs.
C13_Stated_CountsPositiveAndNoWrap ==
    /\ \A k \in DOMAIN acc.utxos : acc.utxos[k] >= 1
    /\ (/\ call.op \in {"HandleValidatedBlock", "HandleBlock"}
        /\ call.ok
        /\ ~crashed)
           => \A a \in ReverseInputStates(acc, call.body, call.h, call.hmax) :
                  \A k \in DOMAIN a.utxos : a.utxos[k] >= 1

\* The processor at the point where OnBlock tests the Reachable flag
OnBlockAtStored(id, block, peer) ==
    [Proc EXCEPT !.states = BlockStored(id, block, peer)]

\* The first row of EnumFunctionalTips has the chainwork of the cursor
AtMaximum(p) ==
    /\ FunctionalTips(p.states) # {}
    /\ DbChainWork(BestFunctionalTip(p.states)) = CursorChainWork(p.cursor)

\* What TryGoUp leaves of p when it does nothing
Untouched(p, q) ==
    /\ q.states = p.states
    /\ q.params = p.params
    /\ q.cursor = p.cursor
    /\ q.acc = p.acc
    /\ ~q.corrupted
    /\ q.ev.rolledBack = {}
    /\ q.ev.applied = {}
    /\ q.ev.failed = {}
    /\ q.ev.pruned = 0
    /\ q.ev.newState = 0

\* C30: when the first Functional tip has the chainwork of the cursor,
\* TryGoUp leaves the store, the cursor and the accumulators as they are,
\* rolls back and applies nothing, and calls neither PruneOld nor
\* OnNewState: in every reachable state, and in every state in which OnBlock
\* calls it after it has stored a block.
C30_EqualChainWorkKeepsCursor ==
    ~crashed =>
        /\ AtMaximum(Proc) => Untouched(Proc, TryGoUp(Proc))
        /\ \A id \in DOMAIN states, peer \in BodyPeers :
               \A block \in SentBodies(id) :
                   (/\ OnBlockStatus(Proc, id, block) = "Accepted"
                    /\ Reachable(BlockStored(id, block, peer), id)
                    /\ AtMaximum(OnBlockAtStored(id, block, peer)))
                       => Untouched(OnBlockAtStored(id, block, peer),
                                    TryGoUp(OnBlockAtStored(id, block, peer)))

\* OnBlock has stored the block of a tip that has the chainwork of the
\* cursor and is on another branch, and TryGoUp has left the cursor
C30_Witness_CompetingTipOfEqualWork ==
    /\ ~crashed
    /\ call.op = "OnBlock"
    /\ call.ret = "Accepted"
    /\ call.ev.tryGoUp > 0
    /\ call.id # cursor.row
    /\ cursor.row # 0
    /\ call.id \in FunctionalTips(states)
    /\ DbChainWork(call.id) = CursorChainWork(cursor)
    /\ states[call.id].body = HonestBody(HdrHeight(call.id))

\* The element at the index floor(n / 2) of the sorted timestamps of the
\* last n = min(WindowForMedian, number of rows) rows of the set rows, which
\* has one row per height up to the height top; 0 when there is no row
MedianOfLast(rows, top) ==
    IF rows = {} THEN 0
    ELSE LET n == Min({WindowForMedian, Cardinality(rows)})
             last == {r \in rows : HdrHeight(r) > top - n}
         IN  CHOOSE y \in {Headers[r].timestamp : r \in last} :
                 /\ Cardinality({r \in last : Headers[r].timestamp < y})
                        <= n \div 2
                 /\ Cardinality({r \in last : Headers[r].timestamp <= y})
                        > n \div 2

\* The header of the row continues the cursor that is on its parent: its
\* chainwork, its difficulty and its timestamp
ContinuesCursor(row, c, sts) ==
    /\ Headers[row].chainwork
           = CursorChainWork(c) + 2^(Headers[row].difficulty)
    /\ Headers[row].difficulty = c.diffNext
    /\ Headers[row].timestamp > MedianOfLast(ActiveRows(sts), c.height)

\* The same of a row and the chain of its ancestors
ContinuesChain(row) ==
    /\ Headers[row].chainwork
           = DbChainWork(HdrPrev(row)) + 2^(Headers[row].difficulty)
    /\ Headers[row].difficulty
           = (IF HdrPrev(row) = 0 THEN StartDifficulty
              ELSE Headers[HdrPrev(row)].difficulty)
    /\ Headers[row].timestamp
           > MedianOfLast({HdrChain(HdrPrev(row))[i] :
                              i \in 1..Len(HdrChain(HdrPrev(row)))},
                          HdrHeight(row) - 1)

\* C27: every state that the last call has applied has a header whose
\* chainwork is the chainwork of its parent increased by its difficulty,
\* whose difficulty is the one that was due and whose timestamp is greater
\* than the median of the last min(WindowForMedian, height - 1) headers
\* below it.  For every block that OnBlock can store on top of the cursor,
\* the first-time HandleBlock returns true only if the header continues the
\* cursor in these three ways, and when it does not, HandleBlock returns
\* false and leaves the accumulators, the store and the cursor as they are.
C27_FirstTimeChecks ==
    ~crashed =>
        /\ \A x \in call.ev.applied : ContinuesChain(x.row)
        /\ \A id \in DOMAIN states, peer \in BodyPeers :
               \A block \in CheckBodies(id) :
                   (/\ OnBlockStatus(Proc, id, block) = "Accepted"
                    /\ DbPrev(states, id) = cursor.row
                    /\ states[id].rollback.size = 0)
                       => LET q == OnBlockAtStored(id, block, peer)
                              r == HandleBlock(q, id, HdrHeight(id), TRUE)
                          IN  /\ (r.ok /\ ~r.corrupted)
                                     => ContinuesCursor(id, cursor, states)
                              /\ ~ContinuesCursor(id, cursor, states)
                                     => /\ ~r.ok
                                        /\ ~r.corrupted
                                        /\ r.acc = acc
                                        /\ r.states = q.states
                                        /\ r.cursor = cursor
                                        /\ r.params = params

\* OnBlock has stored the honest block of a header whose timestamp is the
\* median of the two Active headers below it; GoForward has failed with the
\* warning of the timestamp and the cursor has stayed at the height 2
C27_Witness_TimestampAtMedian ==
    /\ ~crashed
    /\ call.op = "OnBlock"
    /\ call.ret = "Accepted"
    /\ call.ev.warnings = {410}
    /\ MedianHdr \in call.ev.failed
    /\ cursor.height = 2
    /\ states[cursor.row].rollback.size # 0

\* The commitments of the bodies
Commitments == 1..3

\* The maturities up to h at which the multiset holds the commitment c
Spendable(utxos, c, h) ==
    {k[2] : k \in {x \in DOMAIN utxos : x[1] = c /\ x[2] <= h /\ utxos[x] >= 1}}

\* The multiset with one unit less at the key, which it holds
OneLess(utxos, key) ==
    [k \in IF utxos[key] = 1 THEN (DOMAIN utxos) \ {key} ELSE DOMAIN utxos |->
        IF k = key THEN utxos[k] - 1 ELSE utxos[k]]

\* C28: in every reachable state of the interpreter, a forward input of the
\* commitment c at the height h, in the mode of a block (maturities
\* adjusted, no hMax), takes one unit from the entry of c with the smallest
\* maturity up to h, writes that maturity into the input and deletes the
\* entry when nothing is left of it; when c has no entry up to h, the input
\* fails and the accumulators are as before.  The first input of a block
\* that HandleValidatedBlock has applied carries that smallest maturity.
C28_InputSpendsSmallestMaturity ==
    (~crashed /\ ~acc.ub) =>
        /\ \A c \in Commitments, h \in 1..MaxHeight :
               LET r == HandleBlockElementInput(acc, [c |-> c, m |-> 0], h,
                                                NoHMax, TRUE, TRUE)
                   S == Spendable(acc.utxos, c, h)
               IN  IF S = {}
                   THEN ~r.ok /\ r.acc = acc
                   ELSE /\ r.ok
                        /\ r.v = [c |-> c, m |-> Min(S)]
                        /\ r.acc = [acc EXCEPT
                                       !.utxos = OneLess(@, <<c, Min(S)>>)]
        /\ (/\ call.op = "HandleValidatedBlock"
            /\ call.ok
            /\ call.hmax = NoHMax
            /\ ~call.pre.ub
            /\ call.body.ins # << >>)
               => /\ Spendable(call.pre.utxos, call.body.ins[1].c, call.h) # {}
                  /\ call.body.ins[1].m
                         = Min(Spendable(call.pre.utxos, call.body.ins[1].c,
                                         call.h))

\* A block was applied whose first input had two entries of its commitment
\* to choose from, and it has left an entry of that commitment that is not
\* mature at its height
C28_Witness_InputWithTwoMaturities ==
    /\ ~crashed
    /\ call.op = "HandleValidatedBlock"
    /\ call.ok
    /\ call.hmax = NoHMax
    /\ ~call.pre.ub
    /\ call.body.ins # << >>
    /\ Cardinality(Spendable(call.pre.utxos, call.body.ins[1].c, call.h)) >= 2
    /\ \E k \in DOMAIN acc.utxos :
           k[1] = call.body.ins[1].c /\ k[2] > call.h

C22_Stated_GenerateLeavesProcessor ==
    [][(call'.op = "GenerateNewBlock" /\ ~crashed')
           => /\ acc' = acc
              /\ states' = states
              /\ params' = params
              /\ cursor' = cursor
              /\ horizon' = horizon]_vars

\* C23: the header of a GenerateNewBlock that has returned true has the hash
\* of the cursor as its prev (zero when there is no cursor), the height of the
\* cursor plus one, the next difficulty of the cursor, the chainwork of the
\* cursor plus the work of that difficulty, and the greater of the clock and
\* the moving median plus one as its timestamp; the chainwork, difficulty and
\* timestamp checks of a first-time HandleBlock on the cursor pass for it.
C23_GeneratedHeaderPassesChecks ==
    (call.op = "GenerateNewBlock" /\ call.ok /\ ~crashed)
        => /\ call.hdr.prev = (IF cursor.row # 0 THEN cursor.row ELSE ZeroHash)
           /\ call.hdr.height = cursor.height + 1
           /\ call.hdr.difficulty = cursor.diffNext
           /\ call.hdr.chainwork
                  = CursorChainWork(cursor) + 2^(call.hdr.difficulty)
           /\ call.hdr.timestamp
                  = Max({call.now,
                         MedianOfLast(ActiveRows(states), cursor.height) + 1})
           /\ ChecksBeforeBlock(Proc, call.hdr, call.body, TRUE)
                  \notin {398, 404, 410}

\* A block was generated on a cursor whose moving median is not below the
\* clock
C23_Witness_GeneratedBehindMedian ==
    /\ call.op = "GenerateNewBlock"
    /\ call.ok
    /\ ~crashed
    /\ cursor.row # 0
    /\ get_MovingMedian(Proc) >= call.now
    /\ call.hdr.timestamp > call.now

\* The number of outputs of the commitment c with a maturity up to h
RECURSIVE CountUpTo(_, _, _)
CountUpTo(utxos, c, h) ==
    IF h < 0 THEN 0
    ELSE (IF << c, h >> \in DOMAIN utxos THEN utxos[<< c, h >>] ELSE 0)
             + CountUpTo(utxos, c, h - 1)

\* What a transaction that ValidateTxContext accepts on the accumulators a
\* and the cursor c is said to satisfy
AcceptedTxHolds(a, c, x) ==
    /\ \A i \in DOMAIN x.tx.kout : x.hmin <= c.height + 1 /\ c.height + 1 <= x.hmax
    /\ \A i \in DOMAIN x.tx.ins :
           CountUpTo(a.utxos, x.tx.ins[i].c, c.height + 1)
               >= Cardinality({j \in DOMAIN x.tx.ins :
                                  x.tx.ins[j].c = x.tx.ins[i].c})
    /\ \A i \in DOMAIN x.tx.kin : x.tx.kin[i] \notin a.kernels
    /\ \A i \in DOMAIN x.tx.kout : x.tx.kout[i] \notin a.kernels

\* The inputs of equal commitment are next to each other
EqualInputsAdjacent(ins) ==
    \A i, j \in DOMAIN ins :
        (i < j /\ ins[i].c = ins[j].c)
            => \A k \in i..j : ins[k].c = ins[i].c

\* C26 as stated: ValidateTxContext changes neither the UTXO multiset nor the
\* kernel set nor any other state of the processor, and it returns true only
\* for a transaction whose output kernels have the next height in their
\* range, whose every input commitment has, up to the maturity of the next
\* height, at least as many outputs as the transaction has inputs of it, and
\* whose input and output kernels are not in the kernel set.
C26_Stated_ValidateTxContext ==
    [][(call'.op = "ValidateTxContext")
           => /\ UNCHANGED << states, params, cursor, acc, horizon, crashed >>
              /\ call'.ok => AcceptedTxHolds(acc, cursor, call'.x)]_vars

\* C26, amended: the same for the transactions whose inputs of equal
\* commitment are next to each other.
C26_ValidateTxContextOfSortedInputs ==
    [][(call'.op = "ValidateTxContext")
           => /\ UNCHANGED << states, params, cursor, acc, horizon, crashed >>
              /\ (call'.ok /\ EqualInputsAdjacent(call'.x.tx.ins))
                     => AcceptedTxHolds(acc, cursor, call'.x)]_vars

\* ValidateTxContext has returned true for a transaction with output kernels
\* and with more inputs of a commitment than any one entry of the multiset
\* holds
C26_Witness_InputsOverTwoMaturities ==
    /\ call.op = "ValidateTxContext"
    /\ call.ok
    /\ call.x.tx.kout # << >>
    /\ EqualInputsAdjacent(call.x.tx.ins)
    /\ \E i \in DOMAIN call.x.tx.ins :
           \A k \in DOMAIN acc.utxos :
               k[1] = call.x.tx.ins[i].c
                   => acc.utxos[k]
                          < Cardinality({j \in DOMAIN call.x.tx.ins :
                                            call.x.tx.ins[j].c
                                                = call.x.tx.ins[i].c})

\* The cursor is on a Functional tip of the greatest chainwork that the
\* header graph holds, and on no row when it holds no such tip
OnBestFunctionalTip(sts, c) ==
    IF FunctionalTips(sts) = {} THEN c.row = 0
    ELSE /\ c.row \in FunctionalTips(sts)
         /\ \A x \in FunctionalTips(sts) : DbChainWork(x) <= DbChainWork(c.row)

\* C25 as stated: an Initialize that returns, with or without bResetCursor,
\* has run TryGoUp at its end, and the cursor is on the Functional tip of the
\* greatest chainwork of the header graph.
C25_Stated_InitializeEndsOnBestTip ==
    (call.op = "Initialize" /\ call.ret # "" /\ ~crashed)
        => /\ call.ev.tryGoUp = 1
           /\ OnBestFunctionalTip(states, cursor)

\* C25, amended: an Initialize without bResetCursor that returns has run
\* TryGoUp once at its end, and the cursor is on the Functional tip of the
\* greatest chainwork of the header graph; an Initialize with bResetCursor
\* that returns has not run TryGoUp, no row is Active and the cursor is on no
\* row, whatever the header graph holds.
C25_InitializeGoesUpUnlessReset ==
    /\ (call.op = "Initialize" /\ call.ret = "kept" /\ ~crashed)
           => /\ call.ev.tryGoUp = 1
              /\ OnBestFunctionalTip(states, cursor)
    /\ (call.op = "Initialize" /\ call.ret = "reset" /\ ~crashed)
           => /\ call.ev.tryGoUp = 0
              /\ cursor.row = 0
              /\ params.Cursor = 0
              /\ ActiveRows(states) = {}
              /\ acc = EmptyAcc

\* An Initialize without bResetCursor has taken the cursor up from no row to
\* a tip: the processor was started on a store whose cursor had been reset
C25_Witness_WentUpAfterReset ==
    /\ call.op = "Initialize"
    /\ call.ret = "kept"
    /\ ~crashed
    /\ call.ev.applied # {}
    /\ cursor.height >= 2

\* C24: every write to the store that OnState, OnBlock or ImportMacroBlock
\* makes, the writes of the TryGoUp that it runs included, is made within the
\* one transaction of the call, which is committed at the end of the call:
\* a call that OnCorrupted() ends before its end has committed nothing, the
\* header graph, the bodies, the journals and the parameters of the store
\* are as they were before the call.
C24_Stated_WritesWithinOneTransaction ==
    [][(crashed' /\ ~crashed /\ call'.op \in {"OnState", "OnBlock",
                                              "ImportMacroBlock"})
           => states' = states /\ params' = params]_vars

\* The accumulators that a definition and m_Extra are made of
AccContent(a) ==
    [utxos |-> a.utxos, kernels |-> a.kernels, open |-> a.open,
     subsidy |-> a.subsidy, offset |-> a.offset]

\* The cursor without m_LoHorizon
CursorPosition(c) ==
    [row |-> c.row, height |-> c.height, diffNext |-> c.diffNext,
     history |-> c.history, historyNext |-> c.historyNext]

\* The headers on top of the cursor and the bodies that are sent for them
NextBlocks ==
    {x \in ExportHdrIds \X BodyIds :
        HdrPrev(x[1]) = cursor.row /\ x[2] \in ExportBodies(x[1])}

\* C21 as stated: the macroblock that ExportMacroBlock writes for the
\* heights from genesis to the cursor is imported by a processor with an
\* empty store, which then has the same cursor, UTXO multiset, kernel set,
\* subsidy_open, subsidy_total and offset as the exporter; and a block that
\* the exporter accepts on top of its cursor is accepted by the importer,
\* with the same cursor and accumulators.
C21_Stated_ExportImportSameCursor ==
    call.op = "ExportMacroBlock" =>
        /\ call.m.ok
        /\ call.imported.ok /\ ~call.imported.corrupted
        /\ call.imported.cursor = cursor
        /\ AccContent(call.imported.acc) = AccContent(acc)
        /\ \A x \in NextBlocks :
               LET o == LiveBlock(Proc, x[1], x[2])
                   i == LiveBlock(call.imported, x[1], x[2])
               IN  (~o.corrupted /\ o.cursor.row = x[1]) =>
                       /\ ~i.corrupted
                       /\ i.cursor = o.cursor
                       /\ AccContent(i.acc) = AccContent(o.acc)

\* C21: the macroblock that ExportMacroBlock writes for the heights from
\* genesis to the cursor is imported by a processor with an empty store,
\* which then has the same cursor but for m_LoHorizon (the importer has the
\* height of the cursor there), and the same UTXO multiset, kernel set,
\* subsidy_open, subsidy_total and offset as the exporter; and a block that
\* the exporter accepts on top of its cursor is accepted by the importer,
\* with the same cursor but for m_LoHorizon and the same accumulators.
C21_ExportImportSamePosition ==
    call.op = "ExportMacroBlock" =>
        /\ call.m.ok
        /\ call.imported.ok /\ ~call.imported.corrupted
        /\ CursorPosition(call.imported.cursor) = CursorPosition(cursor)
        /\ call.imported.cursor.lo = cursor.height
        /\ AccContent(call.imported.acc) = AccContent(acc)
        /\ \A x \in NextBlocks :
               LET o == LiveBlock(Proc, x[1], x[2])
                   i == LiveBlock(call.imported, x[1], x[2])
               IN  (~o.corrupted /\ o.cursor.row = x[1]) =>
                       /\ ~i.corrupted
                       /\ CursorPosition(i.cursor) = CursorPosition(o.cursor)
                       /\ AccContent(i.acc) = AccContent(o.acc)

\* The blocks 1 and 2 and then 3 were applied, an output of the block 2 was
\* spent by the block 3; the export has squashed the three blocks and the
\* import has applied the macroblock
C21_Witness_SquashedThreeBlocks ==
    /\ call.op = "ExportMacroBlock"
    /\ call.m.ok
    /\ call.m.hdrs = << 1, 2, 3 >>
    /\ Len(call.m.block.ins) = 0
    /\ Len(call.m.block.outs) = 2
    /\ call.imported.ok
    /\ call.imported.cursor.row = 3
    /\ cursor.lo < call.imported.cursor.lo

\* The blocks 1 and 2 were exported and imported, and both processors take
\* the block 3 on top
C21_Witness_NextBlockOnBoth ==
    /\ call.op = "ExportMacroBlock"
    /\ call.m.hdrs = << 1, 2 >>
    /\ call.imported.ok
    /\ LiveBlock(Proc, 3, 3).cursor.row = 3
    /\ LiveBlock(call.imported, 3, 3).cursor.row = 3

\* The number of Functional states of a store
FunctionalCount(sts) == Cardinality({r \in DOMAIN sts : sts[r].functional})

\* The TryGoUp that was run step by step has left what TryGoUp as a whole
\* leaves on the processor it was entered with
StepsAgreeWithTryGoUp ==
    (~Stepping /\ ~crashed /\ "start" \in DOMAIN call) =>
        LET e == TryGoUp(call.start)
        IN  /\ ~e.corrupted
            /\ e.states = states /\ e.params = params
            /\ e.cursor = cursor /\ e.acc = acc
            /\ e.ev = call.ev

\* C31: a TryGoUp that was entered is left (it returns or OnCorrupted()
\* throws).  Every round of the path loop rolls the cursor back by one state
\* or moves the target to its parent; the while (true) loop is begun again
\* only after a GoForward has returned false, which has one Functional state
\* less in the store; the rounds of the while (true) loop are never more
\* than the Functional states at the begin of TryGoUp plus one.
C31_TryGoUpTerminates ==
    /\ Stepping ~> ~Stepping
    /\ [][(Stepping /\ call.pc = "path" /\ call.sidTrg # cursor.row
               /\ ~crashed')
              => \/ /\ cursor'.height = cursor.height - 1
                    /\ cursor'.row = DbPrev(states, cursor.row)
                    /\ call'.sidTrg = call.sidTrg
                 \/ /\ cursor' = cursor
                    /\ call'.sidTrg = DbPrev(states, call.sidTrg)]_vars
    /\ [][(Stepping /\ Stepping' /\ call'.pc = "loop")
              => /\ call.pc = "forward"
                 /\ call'.bFailed
                 /\ FunctionalCount(states') = FunctionalCount(states) - 1
                 /\ states[call.vPath[call.i]].body # 0
                 /\ states'[call.vPath[call.i]].body = 0]_vars
    /\ []("outer" \in DOMAIN call
              => call.outer <= FunctionalCount(call.start.states) + 1)

\* A TryGoUp has returned after three rounds of its loop: two GoForward have
\* returned false, and a state was rolled back
C31_Witness_ThreeRounds ==
    /\ ~Stepping /\ ~crashed
    /\ "outer" \in DOMAIN call
    /\ call.outer = 3
    /\ Cardinality(call.ev.failed) = 2
    /\ call.ev.rolledBack # {}

\* The TryGoUp of the last OnBlock has returned
TryGoUpReturned == ~Stepping /\ ~crashed /\ "start" \in DOMAIN call

\* The cursor, the Active path and the accumulators are the ones that TryGoUp
\* was entered with
AsAtStart ==
    /\ cursor = call.start.cursor
    /\ ActiveRows(states) = ActiveRows(call.start.states)
    /\ acc = call.start.acc

\* C32 as stated: when TryGoUp returns, PruneOld has run once and OnNewState
\* was fired once if a block was rolled back or applied, and neither has
\* happened if the cursor, the Active path and the accumulators are the ones
\* at the start of the call.
C32_Stated_HooksIffChanged ==
    TryGoUpReturned =>
        /\ (call.ev.rolledBack # {} \/ call.ev.applied # {})
               => call.ev.pruned = 1 /\ call.ev.newState = 1
        /\ AsAtStart => call.ev.pruned = 0 /\ call.ev.newState = 0

\* C32: when TryGoUp returns, PruneOld has run once and OnNewState was fired
\* once if a block was rolled back or a GoForward was called, whether it has
\* applied its block or returned false; neither has happened otherwise, and
\* then the cursor, the Active path and the accumulators are the ones at the
\* start of the call.
C32_HooksIffRollbackOrGoForward ==
    TryGoUpReturned =>
        IF \/ call.ev.rolledBack # {}
           \/ call.ev.applied # {}
           \/ call.ev.failed # {}
        THEN call.ev.pruned = 1 /\ call.ev.newState = 1
        ELSE call.ev.pruned = 0 /\ call.ev.newState = 0 /\ AsAtStart

\* A TryGoUp has returned whose only GoForward has returned false: nothing
\* was rolled back or applied, the cursor, the Active path and the
\* accumulators are as at the start, and the hooks have run
C32_Witness_FailedOnly ==
    /\ TryGoUpReturned
    /\ call.ev.failed # {}
    /\ call.ev.rolledBack = {}
    /\ call.ev.applied = {}
    /\ AsAtStart
    /\ call.ev.pruned = 1
    /\ call.ev.newState = 1

\* A TryGoUp has returned that has rolled a block back and applied it again:
\* it ends as it has started, and the hooks have run
C32_Witness_BackAndForth ==
    /\ TryGoUpReturned
    /\ call.ev.rolledBack # {}
    /\ call.ev.applied # {}
    /\ AsAtStart
    /\ call.ev.newState = 1

\* A TryGoUp has returned at its first break: no hook
C32_Witness_NothingToDo ==
    /\ TryGoUpReturned
    /\ call.ev.newState = 0
    /\ call.outer = 1

\* The step is a GoForward of the row vPath[i] that has returned true
GoForwardApplies ==
    /\ Stepping /\ call.pc = "forward" /\ call.i # 0
    /\ Stepping' /\ call'.pc = "forward" /\ call'.i = call.i - 1

\* C33 as stated: a first-time GoForward that applies its block, with h the
\* height of the cursor before it, leaves lo_horizon = h - MaxRollbackHeight
\* when h - lo_horizon > MaxRollbackHeight and leaves lo_horizon as it was
\* when h - lo_horizon <= MaxRollbackHeight; a replay leaves lo_horizon as it
\* was; lo_horizon never decreases.  lo_horizon is m_Cursor.m_LoHorizon
\* before the step and ParamID::LoHorizon, which the cursor has again after
\* the step.
C33_Stated_LoHorizonRaisedOnly ==
    /\ [][GoForwardApplies =>
              /\ cursor'.lo = params'.LoHorizon
              /\ IF /\ states[call.vPath[call.i]].rollback.size = 0
                    /\ cursor.height - cursor.lo > MaxRollbackHeight
                 THEN params'.LoHorizon = cursor.height - MaxRollbackHeight
                 ELSE params'.LoHorizon = params.LoHorizon]_vars
    /\ [][~crashed' => params'.LoHorizon >= params.LoHorizon]_vars

====
